---- MODULE Spec2Model ----
(***************************************************************************)
(* MockMate backend: the news-ingestion job (api/endpoints/trending.py)    *)
(* and its scheduler (scheduler.py); the registration, session and answer  *)
(* endpoints (api/endpoints/user.py, sessions.py, answers.py).             *)
(*                                                                         *)
(* Time is counted in hours.  Relevance scores are counted in tenths       *)
(* (5 is 0.5, 10 is 1.0).  The relational store is modelled by its         *)
(* committed tables; what a session has added or flushed but not yet       *)
(* committed is kept in the run that owns the session.                     *)
(***************************************************************************)
EXTENDS Integers, Sequences, FiniteSets, TLC

VARIABLES
    now,            \* datetime.now(UTC), in hours since start-up
    newsSources,    \* committed rows of news_sources
    newsItems,      \* committed rows of news_items
    questions,      \* committed rows of questions
    newsQuestions,  \* committed rows of news_based_questions
    runs,           \* the executions of fetch_news_task / the orchestrator
    sched,          \* the APScheduler job "news_fetch_job"
    env,            \* what the environment may still do (the bounds of a behaviour)
    hist,           \* observer: per source, the last unit that fetched and ended
    unit,           \* a single call of one function: its arguments and its result
    users,              \* committed rows of users
    userPreferences,    \* committed rows of user_preferences
    interviewSessions,  \* committed rows of interview_sessions
    answerEvaluations,  \* committed rows of answer_evaluations
    registrations,      \* the register_user requests being served
    sent                \* the last response an endpoint has sent

\* the state of the registration, session and answer endpoints
apiVars == <<users, userPreferences, interviewSessions, answerEvaluations, registrations,
             sent>>

vars == <<now, newsSources, newsItems, questions, newsQuestions, runs, sched, env,
          hist, unit, users, userPreferences, interviewSessions, answerEvaluations,
          registrations, sent>>

NULL == "NULL"       \* None, where the value is a string

None == << >>        \* None, where the value is a number or a record

Some(x) == << x >>   \* a value that may be None

Value(opt) == opt[1]

-----------------------------------------------------------------------------
(* Bounds of the model *)

MaxPosts == 1       \* POST /fetch-news and POST /scheduled-fetch requests served
MaxHits == 1        \* hits in one answer of the search API, with requests being served
MaxStories == 1     \* stories the search API knows, with requests being served
SpecTicks == 2      \* ticks of the interval trigger, with requests being served
MaxTicks == 3       \* ticks of the interval trigger, with the timer alone
TimerHits == 3      \* hits in one answer of the search API, with the timer alone
FaultHits == 2      \* hits in one answer of the search API, with faulty generation calls
MaxDbErrors == 1    \* database operations that raise
MaxGenFaults == 1   \* generation calls that raise or answer with an empty reply
MaxLen == 3         \* length of the item lists given to a single function call
MaxResults == 2     \* length of the result lists given to a single function call
MaxFanOut == 2      \* new items of a single fan-out
MaxRegistrations == 2 \* register_user requests being served at a time
MaxSessions == 2    \* interview sessions started
MaxQuestions == 1   \* questions generated through POST /generate
MaxEvaluations == 2 \* answers evaluated and stored
MaxApiHours == 2    \* hours that pass while the API is being called

-----------------------------------------------------------------------------
(* Program constants *)

IntervalHours == 4      \* IntervalTrigger(hours=4)
GuardHours == 4         \* timedelta(hours=4) of the guard query
MaxInstances == 1       \* job_defaults max_instances
ScheduledLimit == 5     \* process_news_and_generate_questions(db, None, 5)
DefaultLimit == 10      \* FetchNewsRequest.limit
MinTitleLen == 10       \* len(title) < 10 is rejected
BaseScore == 5          \* score = 0.5
KeywordBonus == 1       \* score += 0.1
RecentBonus == 2        \* score += 0.2
SomewhatRecentBonus == 1 \* score += 0.1
Threshold == 3          \* relevance_score > 0.3
MaxScore == 10          \* min(1.0, ...)
MinScore == 0           \* max(0.0, ...)
HoursPerDay == 24       \* timedelta.days

NewsCategory == <<"ai", "web_dev", "mobile", "devops", "general_tech">>

DEFAULT_POSITIONS == <<"frontend", "backend", "fullstack", "mobile", "devops">>

NEWS_SOURCES(cat) ==
    CASE cat = "ai" ->
            << [name |-> "AI News from Dev.to", url |-> "dev.to/feed/tag/ai", type |-> "rss"],
               [name |-> "Hacker News - AI", url |-> "hn.algolia.com/search?query=AI", type |-> "api"] >>
      [] cat = "web_dev" ->
            << [name |-> "Web Development from Dev.to", url |-> "dev.to/feed/tag/webdev", type |-> "rss"] >>
      [] cat = "mobile" ->
            << [name |-> "Mobile Development from Dev.to", url |-> "dev.to/feed/tag/mobile", type |-> "rss"] >>
      [] cat = "devops" ->
            << [name |-> "DevOps from Dev.to", url |-> "dev.to/feed/tag/devops", type |-> "rss"] >>
      [] OTHER -> << >>

position_keywords(position) ==
    CASE position = "frontend" -> {"react", "vue", "angular", "javascript", "css", "html", "ui", "ux"}
      [] position = "backend" -> {"api", "database", "server", "python", "java", "node", "sql"}
      [] position = "fullstack" -> {"full stack", "frontend", "backend", "web development"}
      [] position = "mobile" -> {"mobile", "ios", "android", "react native", "flutter", "app"}
      [] position = "devops" -> {"docker", "kubernetes", "aws", "cloud", "deployment", "ci/cd"}
      [] OTHER -> {}

-----------------------------------------------------------------------------
(* Sequences *)

Range(s) == {s[i] : i \in DOMAIN s}

Min(a, b) == IF a <= b THEN a ELSE b

Max(a, b) == IF a >= b THEN a ELSE b

\* Python's s[:limit]
PySlice(s, limit) ==
    IF limit >= 0
    THEN SubSeq(s, 1, Min(limit, Len(s)))
    ELSE SubSeq(s, 1, Max(Len(s) + limit, 0))

\* all sequences over S of length at most n
SeqsUpTo(S, n) == UNION {[1..k -> S] : k \in 0..n}

-----------------------------------------------------------------------------
(* Text.  A title or a summary is modelled by its length and by the set of *)
(* words it is made of; str.lower() maps each word to its lower-case form  *)
(* and "keyword in text" holds when the keyword is a substring of a word.  *)

Lower(w) ==
    CASE w = "React" -> "react"
      [] w = "Vue" -> "vue"
      [] w = "Angular" -> "angular"
      [] w = "JavaScript" -> "javascript"
      [] w = "CSS" -> "css"
      [] w = "HTML" -> "html"
      [] w = "UI" -> "ui"
      [] w = "UX" -> "ux"
      [] w = "API" -> "api"
      [] w = "AI" -> "ai"
      [] w = "Docker" -> "docker"
      [] OTHER -> w

\* proper substrings among the words and keywords of the model
ProperSubstrings == {<<"java", "javascript">>, <<"ui", "build">>, <<"app", "apps">>}

Substring(keyword, word) == keyword = word \/ <<keyword, word>> \in ProperSubstrings

\* keyword in text.lower()
KeywordIn(keyword, text) == \E w \in text.words : Substring(keyword, Lower(w))

NoText == [len |-> 0, words |-> {}]

\* a title that is missing or null
Missing == [len |-> 0 - 1, words |-> {}]

-----------------------------------------------------------------------------
(* The fetchers *)

\* fetch_rss_news: the header dict reads settings.news_fetch_user_agent,
\* which Settings does not define; the AttributeError is raised inside the
\* try block and the handler returns [].
fetch_rss_news(url, limit) == << >>

HnSummary(hit) == IF hit.story_text.len > 0 THEN hit.story_text
                  ELSE [len |-> 30, words |-> {"hacker", "news", "story", "points"}]

RECURSIVE HnItems(_, _)
HnItems(hits, t) ==
    IF hits = << >> THEN << >>
    ELSE LET hit == Head(hits) IN
         (IF hit.title = Missing \/ hit.title.len = 0 \/ hit.url = NULL \/ hit.url = ""
          THEN << >>
          ELSE << [title |-> hit.title,
                   summary |-> HnSummary(hit),
                   url |-> hit.url,
                   published_at |-> IF hit.created_at = None THEN t ELSE Value(hit.created_at)] >>)
         \o HnItems(Tail(hits), t)

\* fetch_hacker_news_api: response.hits is the list of hits the API
\* answers; response.ok is false for any network, status or decode error
fetch_hacker_news_api(response, limit, t) ==
    IF ~response.ok \/ response.error # "none" THEN << >>
    ELSE HnItems(PySlice(response.hits, limit), t)

_fetch_news_for_source(source_config, limit, response, t) ==
    IF source_config.type = "rss" THEN fetch_rss_news(source_config.url, limit)
    ELSE IF source_config.type = "api" THEN fetch_hacker_news_api(response, limit, t)
    ELSE << >>

-----------------------------------------------------------------------------
(* Deduplication *)

\* a loop that never adds to seen_urls
RECURSIVE UniqueItemsUnseen(_, _)
UniqueItemsUnseen(news_items, seen_urls) ==
    IF news_items = << >> THEN << >>
    ELSE LET item == Head(news_items)
             url == item.url
         IN IF url = NULL \/ url = "" \/ url \in seen_urls
            THEN UniqueItemsUnseen(Tail(news_items), seen_urls)
            ELSE << item >> \o UniqueItemsUnseen(Tail(news_items), seen_urls)

RECURSIVE UniqueItems(_, _)
UniqueItems(news_items, seen_urls) ==
    IF news_items = << >> THEN << >>
    ELSE LET item == Head(news_items)
             url == item.url
         IN IF url = NULL \/ url = "" \/ url \in seen_urls
            THEN UniqueItems(Tail(news_items), seen_urls)
            ELSE << item >> \o UniqueItems(Tail(news_items), seen_urls \cup {url})

\* a filter that does not look at the stored URLs
NothingExisting(unique_items, existing_urls) == unique_items

RECURSIVE NotExisting(_, _)
NotExisting(unique_items, existing_urls) ==
    IF unique_items = << >> THEN << >>
    ELSE (IF Head(unique_items).url \in existing_urls THEN << >> ELSE << Head(unique_items) >>)
         \o NotExisting(Tail(unique_items), existing_urls)

\* _filter_new_news_items; stored_urls is the url column of news_items as
\* the session's SELECT sees it
_filter_new_news_items(stored_urls, news_items) ==
    LET unique_items == UniqueItems(news_items, {})
        urls == {unique_items[i].url : i \in DOMAIN unique_items}
        existing_urls == stored_urls \cap urls
    IN IF unique_items = << >> THEN << >> ELSE NotExisting(unique_items, existing_urls)

-----------------------------------------------------------------------------
(* Question generation *)

\* timedelta.days of (t - news_date)
DaysOld(t, news_date) == (t - news_date) \div HoursPerDay

\* a score that is not clamped
Unclamped(score) == score

Clamp(score) == Min(MaxScore, Max(MinScore, score))

\* a score that takes 0.3 off for an item more than 3 days old
calculate_relevance_score_aging(news_item, position, t) ==
    LET keywords == position_keywords(position)
        matched == {k \in keywords : KeywordIn(k, news_item.title) \/ KeywordIn(k, news_item.summary)}
        days_old == DaysOld(t, news_item.published_at)
        recency == IF days_old <= 1 THEN RecentBonus
                   ELSE IF days_old <= 3 THEN SomewhatRecentBonus ELSE 0 - 3
    IN Clamp(BaseScore + KeywordBonus * Cardinality(matched) + recency)

\* a score that adds both recency bonuses to an item that is at most 1 day old
calculate_relevance_score_cumulative(news_item, position, t) ==
    LET keywords == position_keywords(position)
        matched == {k \in keywords : KeywordIn(k, news_item.title) \/ KeywordIn(k, news_item.summary)}
        days_old == DaysOld(t, news_item.published_at)
        recency == (IF days_old <= 1 THEN RecentBonus ELSE 0)
                   + (IF days_old <= 3 THEN SomewhatRecentBonus ELSE 0)
    IN Clamp(BaseScore + KeywordBonus * Cardinality(matched) + recency)

calculate_relevance_score(news_item, position, t) ==
    LET keywords == position_keywords(position)
        matched == {k \in keywords : KeywordIn(k, news_item.title) \/ KeywordIn(k, news_item.summary)}
        days_old == DaysOld(t, news_item.published_at)
        recency == IF days_old <= 1 THEN RecentBonus
                   ELSE IF days_old <= 3 THEN SomewhatRecentBonus ELSE 0
    IN Clamp(BaseScore + KeywordBonus * Cardinality(matched) + recency)

\* what a task of the fan-out gives to asyncio.gather: the triple it
\* returns, or (raised) the exception it ended with
NoQuestion == [raised |-> FALSE, question_data |-> None, ai_reasoning |-> "",
               relevance_score |-> 0]

\* what the parsing of lines 246-265 extracts from the model's reply
ParseReply(reply) ==
    CASE reply = "QUESTION: q REASONING: r" -> [question |-> "q", reasoning |-> "r"]
      [] reply = "q" -> [question |-> "q", reasoning |-> ""]
      [] OTHER -> [question |-> "", reasoning |-> ""]

\* a title check that lets titles of nine characters pass
CallsModelFromNine(news_item) ==
    ~(news_item.title = Missing \/ news_item.title.len = 0
        \/ news_item.title.len < MinTitleLen - 1)

\* does generate_question_from_news reach the chat completion call of line
\* 233: not when the title is missing (the log line of line 194 raises and
\* the handler returns), empty or shorter than 10 characters
CallsModel(news_item) ==
    ~(news_item.title = Missing \/ news_item.title.len = 0
        \/ news_item.title.len < MinTitleLen)

\* generate_question_from_news; reply is what the chat completion answers,
\* or "error" when the call raises
generate_question_from_news(news_item, position, reply, t) ==
    IF ~CallsModel(news_item)
    THEN NoQuestion
    ELSE IF reply = "error" THEN NoQuestion
    ELSE LET parsed == ParseReply(reply) IN
         [raised |-> FALSE,
          question_data |-> Some([content |-> parsed.question, position |-> position,
                                  difficulty |-> "medium"]),
          ai_reasoning |-> parsed.reasoning,
          relevance_score |-> calculate_relevance_score(news_item, position, t)]

\* a gate that compares with >= instead of >
AcceptedFromThreshold(result) ==
    result.question_data # None /\ result.relevance_score >= Threshold

\* the acceptance gate of _generate_questions_for_news_items
Accepted(result) == result.question_data # None /\ result.relevance_score > Threshold

\* task_contexts, numbered 1..n: item index (from 1) and position of task k
TaskIndex(k, positions) == ((k - 1) \div Len(positions)) + 1

TaskPosition(k, positions) == positions[((k - 1) % Len(positions)) + 1]

\* results of asyncio.gather: the result of task k
TaskResult(news_items, positions, replies, t, k) ==
    generate_question_from_news(news_items[TaskIndex(k, positions)],
                                TaskPosition(k, positions), replies[k], t)

\* the loop over zip(task_contexts, results): exceptions are skipped, the
\* accepted results are kept in the order of the tasks
RECURSIVE ValidResults(_, _, _)
ValidResults(positions, results, k) ==
    IF k > Len(results) THEN << >>
    ELSE (IF ~results[k].raised /\ Accepted(results[k])
          THEN << [news_index |-> TaskIndex(k, positions),
                   question_data |-> Value(results[k].question_data),
                   ai_reasoning |-> results[k].ai_reasoning,
                   relevance_score |-> results[k].relevance_score] >>
          ELSE << >>)
         \o ValidResults(positions, results, k + 1)

\* a gather that lists the results in the order of completion
GatherAsCompleted(task_results, order) ==
    [j \in DOMAIN order |-> task_results[order[j]]]

\* asyncio.gather: order[j] is the task that completes as the j-th; the
\* result of each completion is stored at the position of its task
Gather(task_results, order) ==
    [k \in DOMAIN order |-> task_results[order[CHOOSE j \in DOMAIN order : order[j] = k]]]

\* a fan-out in which one failing call loses the results of all the calls
AllOrNothing(news_items, positions, replies, t, order) ==
    IF news_items = << >> \/ positions = << >> THEN << >>
    ELSE IF \E k \in DOMAIN replies : replies[k] = "error" THEN << >>
    ELSE ValidResults(positions,
                      Gather([k \in 1..(Len(news_items) * Len(positions)) |->
                                 TaskResult(news_items, positions, replies, t, k)], order),
                      1)

\* _generate_questions_for_news_items; replies[k] is the reply to task k and
\* order the order in which the tasks complete
_generate_questions_for_news_items(news_items, positions, replies, t, order) ==
    IF news_items = << >> \/ positions = << >> THEN << >>
    ELSE ValidResults(positions,
                      Gather([k \in 1..(Len(news_items) * Len(positions)) |->
                                 TaskResult(news_items, positions, replies, t, k)], order),
                      1)

-----------------------------------------------------------------------------
(* The world outside: stories the Hacker News search answers, requests *)

RichTitle == [len |-> 43,
              words |-> {"React", "Vue", "Angular", "JavaScript", "CSS", "HTML", "UI", "UX"}]

ShortTitle == [len |-> 2, words |-> {"AI"}]

PlainTitle == [len |-> 25, words |-> {"build", "apps", "faster"}]

MixedTitle == [len |-> 28, words |-> {"react", "css", "html", "api", "docker"}]

\* titles of nine and of ten characters
NineTitle == [len |-> 9, words |-> {"React", "API"}]

TenTitle == [len |-> 10, words |-> {"Docker", "API"}]

\* the hits a search may answer: a story dated in the future, a story with
\* a two-character title, a two-day-old story, and an "Ask HN" story that
\* has no url
Hits ==
    << [title |-> RichTitle, url |-> "u1", created_at |-> Some(30), story_text |-> NoText],
       [title |-> ShortTitle, url |-> "u2", created_at |-> Some(-30), story_text |-> NoText],
       [title |-> PlainTitle, url |-> "u3", created_at |-> Some(-60), story_text |-> NoText],
       [title |-> PlainTitle, url |-> NULL, created_at |-> None, story_text |-> PlainTitle] >>

\* the stories the search knows in this behaviour
Stories == {Hits[i] : i \in 1..Min(env.stories, Len(Hits))}

\* what makes a fetcher leave its try block: a network error, a non-success
\* HTTP status, a timeout, a body that is not JSON, a field that does not
\* parse
FetchErrors == {"network", "status", "timeout", "decode", "parse"}

\* what the remote end of a source may answer
Responses(source_config) ==
    IF source_config.type = "api"
    THEN {[ok |-> TRUE, error |-> "none", hits |-> h] : h \in SeqsUpTo(Stories, env.hits)}
         \cup {[ok |-> FALSE, error |-> e, hits |-> << >>] : e \in FetchErrors}
    ELSE {[ok |-> TRUE, error |-> "none", hits |-> << >>]}

\* FetchNewsRequest: category is a NewsCategory or None, limit an int
RequestCategories == {NULL, "ai", "general_tech"}

RequestLimits == {DefaultLimit}

OkReply == "QUESTION: q REASONING: r"

FaultyReplies == {"error", ""}

\* the replies of the generation service to n tasks, at most `faults` of
\* them faulty
RepliesTo(n, faults) ==
    {[k \in 1..n |-> IF \E i \in DOMAIN at : at[i] = k
                     THEN kind[CHOOSE i \in DOMAIN at : at[i] = k] ELSE OkReply] :
        at \in [1..faults -> 0..n], kind \in [1..faults -> FaultyReplies]}

\* the orders of completion the running system is given: first task first,
\* and last task first
CompletionOrders(n) == {[k \in 1..n |-> k], [k \in 1..n |-> n + 1 - k]}

NumFaults(replies) == Cardinality({k \in DOMAIN replies : replies[k] # OkReply})

-----------------------------------------------------------------------------
(* State *)

\* the clock's step where the time within an interval matters
HalfInterval == IntervalHours \div 2

RunIds == 1..(MaxPosts + MaxInstances)

EmptyPending == [sources |-> {}, items |-> {}, questions |-> {}, links |-> {}, stamp |-> None]

Idle == [origin |-> "none", serial |-> 0, pc |-> "idle", limit |-> 0, todo |-> << >>,
         source |-> None, fetch_ok |-> TRUE, overlapped |-> FALSE, news_items |-> << >>, fresh |-> << >>, replies |-> << >>,
         pending |-> EmptyPending]

Running(r) == runs[r].origin # "none"

\* the run executes process_news_and_generate_questions
InOrchestrator(r) == runs[r].pc \in {"get_source", "fetch", "filter", "generate", "commit"}

\* observer: the runs of rs that execute the orchestrator while another run
\* executes it are marked as overlapped
MarkOverlap(rs) ==
    IF Cardinality({r \in RunIds : rs[r].pc \in {"get_source", "fetch", "filter", "generate",
                                                   "commit"}}) > 1
    THEN [r \in RunIds |->
             IF rs[r].pc \in {"get_source", "fetch", "filter", "generate", "commit"}
             THEN [rs[r] EXCEPT !.overlapped = TRUE] ELSE rs[r]]
    ELSE rs

ScheduledInstances == {r \in RunIds : runs[r].origin = "scheduler"}

FreeSlot == CHOOSE r \in RunIds : ~Running(r) /\ \A q \in RunIds : ~Running(q) => r <= q

RECURSIVE Configs(_, _)
Configs(cats, i) ==
    IF i > Len(cats) THEN << >>
    ELSE [k \in 1..Len(NEWS_SOURCES(cats[i])) |->
             [category |-> cats[i], config |-> NEWS_SOURCES(cats[i])[k]]]
         \o Configs(cats, i + 1)

\* categories_to_process and the sources of each, in the order of the loops
SourcesToProcess(category) ==
    Configs(IF category # NULL THEN << category >> ELSE NewsCategory, 1)

InitTables ==
    /\ now = 0
    /\ newsSources = {}
    /\ newsItems = {}
    /\ questions = {}
    /\ newsQuestions = {}
    /\ runs = [r \in RunIds |-> Idle]
    /\ sched = [next_run_time |-> 0, executed |-> 0, last_outcome |-> "none"]
    /\ hist = {}
    /\ users = {}
    /\ userPreferences = {}
    /\ interviewSessions = {}
    /\ answerEvaluations = {}
    /\ registrations = [i \in 1..MaxRegistrations |-> [pc |-> "idle", username |-> NULL, email |-> NULL, user_id |-> 0]]
    /\ sent = [op |-> "none"]

\* the state after start_scheduler, with requests being served
Init ==
    /\ InitTables
    /\ env = [posts |-> MaxPosts, ticks |-> SpecTicks, step |-> IntervalHours, hits |-> MaxHits,
              stories |-> MaxStories, db_errors |-> MaxDbErrors, gen_faults |-> 0, observe |-> FALSE]
    /\ unit = [op |-> "none"]

\* the state after start_scheduler; several intervals, with the timer alone
\* and the fetches recorded in hist
TimerInit ==
    /\ InitTables
    /\ env = [posts |-> 0, ticks |-> MaxTicks, step |-> IntervalHours, hits |-> TimerHits,
              stories |-> Len(Hits), db_errors |-> MaxDbErrors, gen_faults |-> 0, observe |-> TRUE]
    /\ unit = [op |-> "none"]

\* the timer alone, with a clock that also stops within the intervals and
\* the fetches recorded in hist
ClockInit ==
    /\ InitTables
    /\ env = [posts |-> 0, ticks |-> MaxTicks, step |-> HalfInterval, hits |-> MaxHits,
              stories |-> MaxStories, db_errors |-> MaxDbErrors, gen_faults |-> 0,
              observe |-> TRUE]
    /\ unit = [op |-> "none"]

\* the same, with generation calls that fail
FaultInit ==
    /\ InitTables
    /\ env = [posts |-> 0, ticks |-> MaxTicks, step |-> IntervalHours, hits |-> FaultHits,
              stories |-> Len(Hits), db_errors |-> MaxDbErrors, gen_faults |-> MaxGenFaults, observe |-> FALSE]
    /\ unit = [op |-> "none"]

-----------------------------------------------------------------------------
(* Environment *)

\* the clock: time passes, by env.step hours at a time, until the next tick
\* of the interval trigger is due
AdvanceTime ==
    /\ env.ticks > 0
    /\ now < sched.next_run_time
    /\ now' = Min(now + env.step, sched.next_run_time)
    /\ UNCHANGED <<newsSources, newsItems, questions, newsQuestions, runs, sched, env>>

-----------------------------------------------------------------------------
(* Starting and ending a run *)

\* process_news_and_generate_questions is entered
StartOrchestrator(run, category, limit) ==
    [run EXCEPT !.pc = "get_source", !.limit = limit, !.todo = SourcesToProcess(category)]

\* serial tells the runs of a behaviour apart: the tick or the request
NewRun(origin, serial) == [Idle EXCEPT !.origin = origin, !.serial = serial]

\* fetch_latest_news / scheduled_news_fetch: the orchestrator is added as a
\* background task with the request's session; with no source to process it
\* returns without awaiting anything
BackgroundRun(origin, category, limit) ==
    /\ env.posts > 0
    /\ env' = [env EXCEPT !.posts = @ - 1]
    /\ runs' = IF SourcesToProcess(category) = << >> THEN runs
               ELSE MarkOverlap([runs EXCEPT ![FreeSlot] =
                        StartOrchestrator(NewRun(origin, env.posts), category, limit)])
    /\ UNCHANGED <<now, newsSources, newsItems, questions, newsQuestions, sched>>

PostFetchNews ==
    \E category \in RequestCategories, limit \in RequestLimits :
        BackgroundRun("fetch-news", category, limit)

PostScheduledFetch == BackgroundRun("scheduled-fetch", NULL, ScheduledLimit)

\* the scheduler after an execution of the job has ended
JobEnded(outcome) == [sched EXCEPT !.last_outcome = outcome]

\* a job whose instance is never released after an exception
EndRunHeld(r, outcome) ==
    /\ runs' = [runs EXCEPT ![r] = IF outcome = "failed" THEN [@ EXCEPT !.pc = "failed"]
                                   ELSE Idle]
    /\ sched' = IF runs[r].origin = "scheduler" THEN JobEnded(outcome) ELSE sched

\* the run ends: the session is closed, a scheduled instance is released
EndRun(r, outcome) ==
    /\ runs' = [runs EXCEPT ![r] = Idle]
    /\ sched' = IF runs[r].origin = "scheduler" THEN JobEnded(outcome) ELSE sched

-----------------------------------------------------------------------------
(* The scheduler *)

\* a scheduler without the max_instances limit
JobMayStartUnlimited == TRUE

\* max_instances: may the job be submitted now
JobMayStart == Cardinality(ScheduledInstances) < MaxInstances

\* the interval trigger fires: the job is submitted unless max_instances of
\* it are running, and the next run time moves on by the interval
SchedulerTick ==
    /\ env.ticks > 0
    /\ now = sched.next_run_time
    /\ env' = [env EXCEPT !.ticks = @ - 1]
    /\ IF JobMayStart /\ \E r \in RunIds : ~Running(r)
       THEN /\ runs' = [runs EXCEPT ![FreeSlot] =
                           [NewRun("scheduler", env.ticks) EXCEPT !.pc = "guard"]]
            /\ sched' = [sched EXCEPT !.next_run_time = @ + IntervalHours,
                                      !.executed = @ + 1,
                                      !.last_outcome = "running"]
       ELSE /\ sched' = [sched EXCEPT !.next_run_time = @ + IntervalHours]
            /\ UNCHANGED runs
    /\ UNCHANGED <<now, newsSources, newsItems, questions, newsQuestions>>

\* a guard query without the four-hour window
RecentlyFetchedEver ==
    \E s \in newsSources : s.last_fetched # None

\* a guard query that compares with > instead of >=
RecentlyFetchedStrictly ==
    \E s \in newsSources : s.last_fetched # None /\ Value(s.last_fetched) > now - GuardHours

\* the guard query of fetch_news_task
RecentlyFetched ==
    \E s \in newsSources : s.last_fetched # None /\ Value(s.last_fetched) >= now - GuardHours

\* fetch_news_task: skip when a source was fetched recently, else run the
\* orchestrator for all categories
Guard(r) ==
    /\ runs[r].pc = "guard"
    /\ IF RecentlyFetched
       THEN EndRun(r, "skipped")
       ELSE /\ runs' = MarkOverlap([runs EXCEPT ![r] =
                                        StartOrchestrator(@, NULL, ScheduledLimit)])
            /\ UNCHANGED sched
    /\ UNCHANGED <<now, newsSources, newsItems, questions, newsQuestions, env>>

-----------------------------------------------------------------------------
(* The orchestrator: one source configuration after the other *)

Config(r) == Head(runs[r].todo).config

Category(r) == Head(runs[r].todo).category

\* the rows the session of run r sees: committed ones and its own
VisibleSources(r) == newsSources \cup runs[r].pending.sources

VisibleItems(r) == newsItems \cup runs[r].pending.items

\* primary keys (uuid4): the run, the source it is at, the row's number
RowId(r, table, i) == <<table, runs[r].origin, runs[r].serial, Len(runs[r].todo), i>>

\* a handler inside the loop over the sources: the unit is rolled back and
\* the run goes on with the next source
RaiseContinues(r) ==
    IF runs[r].pc = "guard" \/ Len(runs[r].todo) <= 1
    THEN EndRun(r, "failed")
    ELSE /\ runs' = [runs EXCEPT ![r] =
                 [@ EXCEPT !.pc = "get_source", !.todo = Tail(@), !.source = None,
                           !.fetch_ok = TRUE, !.news_items = << >>, !.fresh = << >>,
                           !.replies = << >>, !.pending = EmptyPending]]
         /\ UNCHANGED sched

\* the exception reaches the handler of the orchestrator (rollback) or of
\* fetch_news_task: nothing of the open transaction is kept, the run is over
Raise(r) == EndRun(r, "failed")

\* an early return that leaves the source unstamped
FetchedUnstamped(run, news_items, t) ==
    IF news_items = << >>
    THEN [run EXCEPT !.pc = "commit"]
    ELSE [run EXCEPT !.pc = "filter", !.news_items = news_items]

\* the run after _fetch_news_for_source has returned news_items: the early
\* return of lines 408-411 stamps the source and commits
Fetched(run, news_items, t) ==
    IF news_items = << >>
    THEN [run EXCEPT !.pc = "commit", !.pending.stamp = Some(t)]
    ELSE [run EXCEPT !.pc = "filter", !.news_items = news_items]

\* an existence check that finds nothing
MatchingNone(r) == {}

\* the rows the SELECT of _get_or_create_source returns
MatchingSources(r) ==
    {s \in VisibleSources(r) : s.url = Config(r).url /\ s.category = Category(r)}

\* _get_or_create_source: scalar_one_or_none raises when several rows match.
\* fetch_rss_news raises before its first await, so for an rss source the
\* fetch fails and returns within the same step; the api fetch awaits the
\* HTTP answer.  fetch_ok tells whether the fetcher got through its try block.
GetOrCreateSource(r) ==
    /\ runs[r].pc = "get_source"
    /\ LET matching == MatchingSources(r)
           created == [id |-> RowId(r, "source", 1),
                       url |-> Config(r).url, category |-> Category(r),
                       last_fetched |-> None]
           found == IF matching = {}
                    THEN [runs[r] EXCEPT !.pc = "fetch", !.source = created.id,
                                         !.pending.sources = {created}]
                    ELSE [runs[r] EXCEPT !.pc = "fetch",
                                         !.source = (CHOOSE s \in matching : TRUE).id]
       IN IF Cardinality(matching) > 1 THEN Raise(r)
          ELSE /\ runs' = [runs EXCEPT ![r] =
                    IF Config(r).type = "api" THEN found
                    ELSE Fetched([found EXCEPT !.fetch_ok = FALSE], _fetch_news_for_source(Config(r), runs[r].limit,
                                                                [ok |-> TRUE, error |-> "none",
                                                                 hits |-> << >>], now),
                                 now)]
               /\ UNCHANGED sched
    /\ UNCHANGED <<now, newsSources, newsItems, questions, newsQuestions, env>>

\* a fetcher that lets its exception reach the orchestrator
FetchNewsRaises(r) ==
    /\ runs[r].pc = "fetch"
    /\ \E response \in Responses(Config(r)) :
          IF response.ok
          THEN /\ runs' = [runs EXCEPT ![r] =
                      Fetched([@ EXCEPT !.fetch_ok = response.ok],
                              _fetch_news_for_source(Config(r), runs[r].limit, response, now),
                              now)]
               /\ UNCHANGED sched
          ELSE Raise(r)
    /\ UNCHANGED <<now, newsSources, newsItems, questions, newsQuestions, env>>

\* _fetch_news_for_source returns
FetchNews(r) ==
    /\ runs[r].pc = "fetch"
    /\ \E response \in Responses(Config(r)) :
          runs' = [runs EXCEPT ![r] =
              Fetched([@ EXCEPT !.fetch_ok = response.ok],
                      _fetch_news_for_source(Config(r), runs[r].limit, response, now), now)]
    /\ UNCHANGED <<now, newsSources, newsItems, questions, newsQuestions, sched, env>>

\* _build_news_model
_build_news_model(r, i, news_data) ==
    [id |-> RowId(r, "news", i),
     source_id |-> runs[r].source,
     url |-> news_data.url,
     category |-> Category(r),
     is_processed |-> FALSE]

\* a unit that commits the NewsItem rows where the code flushes them
FilterNewCommits(r) ==
    /\ runs[r].pc = "filter"
    /\ \E fresh \in {_filter_new_news_items({n.url : n \in VisibleItems(r)}, runs[r].news_items)} :
          /\ runs' = [runs EXCEPT ![r] =
                 IF fresh = << >>
                 THEN [@ EXCEPT !.pc = "commit", !.pending.stamp = Some(now)]
                 ELSE [@ EXCEPT !.pc = "generate", !.fresh = fresh,
                                !.pending.items =
                                    {_build_news_model(r, i, fresh[i]) : i \in DOMAIN fresh}]]
          /\ newsItems' = newsItems \cup {_build_news_model(r, i, fresh[i]) : i \in DOMAIN fresh}
    /\ UNCHANGED <<now, newsSources, questions, newsQuestions, sched, env>>

\* _filter_new_news_items, the early return when nothing is new, else the
\* NewsItem rows are added and flushed
FilterNew(r) ==
    /\ runs[r].pc = "filter"
    /\ \E fresh \in {_filter_new_news_items({n.url : n \in VisibleItems(r)}, runs[r].news_items)} :
          runs' = [runs EXCEPT ![r] =
              IF fresh = << >>
              THEN [@ EXCEPT !.pc = "commit", !.pending.stamp = Some(now)]
              ELSE [@ EXCEPT !.pc = "generate", !.fresh = fresh,
                             !.pending.items =
                                 {_build_news_model(r, i, fresh[i]) : i \in DOMAIN fresh}]]
    /\ UNCHANGED <<now, newsSources, newsItems, questions, newsQuestions, sched, env>>

\* the Question and NewsBasedQuestion rows of lines 430-455 for the j-th
\* valid result
QuestionRow(r, j, result) ==
    [id |-> RowId(r, "question", j),
     content |-> result.question_data.content,
     position |-> result.question_data.position]

LinkRow(r, j, result) ==
    [news_item_id |-> RowId(r, "news", result.news_index),
     question_id |-> RowId(r, "question", j),
     relevance_score |-> result.relevance_score]

\* a loop that marks only the items a question was accepted for
MarkedIfQuestion(news_models, links) ==
    {IF \E l \in links : l.news_item_id = n.id THEN [n EXCEPT !.is_processed = TRUE] ELSE n :
        n \in news_models}

\* lines 459-460: every news model of the unit is marked processed
MarkProcessed(news_models, links) ==
    {[n EXCEPT !.is_processed = TRUE] : n \in news_models}

\* lines 423-462: the fan-out and gather, the rows of the accepted results,
\* the processed marks and the stamp
GenerateQuestions(r) ==
    /\ runs[r].pc = "generate"
    /\ \E replies \in RepliesTo(Len(runs[r].fresh) * Len(DEFAULT_POSITIONS), env.gen_faults),
          order \in CompletionOrders(Len(runs[r].fresh) * Len(DEFAULT_POSITIONS)) :
          \E generated_results \in
                  {_generate_questions_for_news_items(runs[r].fresh, DEFAULT_POSITIONS, replies,
                                                      now, order)} :
             /\ runs' = [runs EXCEPT ![r] =
                    [@ EXCEPT !.pc = "commit",
                              !.replies = replies,
                              !.pending.questions =
                                  {QuestionRow(r, j, generated_results[j]) :
                                       j \in DOMAIN generated_results},
                              !.pending.links =
                                  {LinkRow(r, j, generated_results[j]) :
                                       j \in DOMAIN generated_results},
                              !.pending.items =
                                  MarkProcessed(@, {LinkRow(r, j, generated_results[j]) :
                                                        j \in DOMAIN generated_results}),
                              !.pending.stamp = Some(now)]]
             /\ env' = [env EXCEPT !.gen_faults = @ - NumFaults(replies)]
    /\ UNCHANGED <<now, newsSources, newsItems, questions, newsQuestions, sched>>

\* an UPDATE of last_fetched without the WHERE clause
StampedAll(rows, id, stamp) ==
    {IF stamp # None THEN [s EXCEPT !.last_fetched = stamp] ELSE s : s \in rows}

\* the rows of news_sources after an UPDATE of last_fetched by primary key
Stamped(rows, id, stamp) ==
    {IF s.id = id /\ stamp # None THEN [s EXCEPT !.last_fetched = stamp] ELSE s : s \in rows}

\* a commit that loses the Question rows of the unit
CommitWithoutQuestions(r) ==
    /\ runs[r].pc = "commit"
    /\ newsSources' = Stamped(newsSources \cup runs[r].pending.sources,
                              runs[r].source, runs[r].pending.stamp)
    /\ newsItems' = newsItems \cup runs[r].pending.items
    /\ questions' = questions
    /\ newsQuestions' = newsQuestions \cup runs[r].pending.links
    /\ IF Tail(runs[r].todo) = << >>
       THEN EndRun(r, "completed")
       ELSE /\ runs' = [runs EXCEPT ![r] =
                    [@ EXCEPT !.pc = "get_source", !.todo = Tail(@), !.source = None,
                              !.fetch_ok = TRUE, !.news_items = << >>, !.fresh = << >>, !.replies = << >>,
                              !.pending = EmptyPending]]
            /\ UNCHANGED sched
    /\ UNCHANGED <<now, env>>

\* db.commit() of lines 410, 416 and 463, and the step to the next source
Commit(r) ==
    /\ runs[r].pc = "commit"
    /\ newsSources' = Stamped(newsSources \cup runs[r].pending.sources,
                              runs[r].source, runs[r].pending.stamp)
    /\ newsItems' = newsItems \cup runs[r].pending.items
    /\ questions' = questions \cup runs[r].pending.questions
    /\ newsQuestions' = newsQuestions \cup runs[r].pending.links
    /\ IF Tail(runs[r].todo) = << >>
       THEN EndRun(r, "completed")
       ELSE /\ runs' = [runs EXCEPT ![r] =
                    [@ EXCEPT !.pc = "get_source", !.todo = Tail(@), !.source = None,
                              !.fetch_ok = TRUE, !.news_items = << >>, !.fresh = << >>, !.replies = << >>,
                              !.pending = EmptyPending]]
            /\ UNCHANGED sched
    /\ UNCHANGED <<now, env>>

\* a handler that commits what the session holds instead of rolling back
DbErrorKeeps(r) ==
    /\ runs[r].pc \in {"guard", "get_source", "filter", "generate", "commit"}
    /\ env.db_errors > 0
    /\ env' = [env EXCEPT !.db_errors = @ - 1]
    /\ Raise(r)
    /\ newsSources' = newsSources \cup runs[r].pending.sources
    /\ newsItems' = newsItems \cup runs[r].pending.items
    /\ questions' = questions \cup runs[r].pending.questions
    /\ newsQuestions' = newsQuestions \cup runs[r].pending.links
    /\ UNCHANGED now

\* a database operation of the run raises: the query of the guard, a flush
\* or a commit; the handler rolls the session back
DbError(r) ==
    /\ runs[r].pc \in {"guard", "get_source", "filter", "generate", "commit"}
    /\ env.db_errors > 0
    /\ env' = [env EXCEPT !.db_errors = @ - 1]
    /\ Raise(r)
    /\ UNCHANGED <<now, newsSources, newsItems, questions, newsQuestions>>

-----------------------------------------------------------------------------
(* Specifications of the running system.  Spec: the timer, with the two   *)
(* endpoints being called.  TimerSpec: several      *)
(* intervals with the timer alone driving the ingestion.                   *)

Silent == UNCHANGED <<hist, unit, apiVars>>

\* hist keeps, where env.observe is set, for every source configuration, the last execution of
\* _process_source_config that got an answer from its fetcher: what was
\* fetched, whether the unit committed and how many NewsItem rows it created,
\* and for a unit that was rolled back the NewsItem rows its session held
LastUnit(r, committed) ==
    [url |-> Config(r).url,
     category |-> Category(r),
     fetched |-> runs[r].news_items,
     fetch_ok |-> runs[r].fetch_ok,
     flushed |-> IF committed THEN {} ELSE runs[r].pending.items,
     committed |-> committed,
     created |-> IF committed THEN Cardinality(runs[r].pending.items) ELSE 0]

Observed(r, committed) ==
    /\ hist' = IF env.observe
               THEN {h \in hist : h.url # Config(r).url \/ h.category # Category(r)}
                        \cup {LastUnit(r, committed)}
               ELSE hist
    /\ UNCHANGED <<unit, apiVars>>

Fetching(r) == runs[r].pc \in {"filter", "generate", "commit"}

Ingestion ==
    \/ \E r \in RunIds : Guard(r) /\ Silent
    \/ \E r \in RunIds : GetOrCreateSource(r) /\ Silent
    \/ \E r \in RunIds : FetchNews(r) /\ Silent
    \/ \E r \in RunIds : FilterNew(r) /\ Silent
    \/ \E r \in RunIds : GenerateQuestions(r) /\ Silent
    \/ \E r \in RunIds : Commit(r) /\ Observed(r, TRUE)
    \/ \E r \in RunIds : DbError(r) /\ IF Fetching(r) THEN Observed(r, FALSE) ELSE Silent

Next ==
    \/ AdvanceTime /\ Silent
    \/ PostFetchNews /\ Silent
    \/ PostScheduledFetch /\ Silent
    \/ SchedulerTick /\ Silent
    \/ Ingestion

Spec == Init /\ [][Next]_vars

TimerNext ==
    \/ AdvanceTime /\ Silent
    \/ SchedulerTick /\ Silent
    \/ Ingestion

TimerSpec == TimerInit /\ [][TimerNext]_vars

FaultSpec == FaultInit /\ [][TimerNext]_vars

\* the event loop keeps running: the clock advances, the trigger fires when
\* it is due, and a run that can take its next step takes it
ClockSpec ==
    /\ ClockInit
    /\ [][TimerNext]_vars
    /\ WF_vars(AdvanceTime /\ Silent)
    /\ WF_vars(SchedulerTick /\ Silent)
    /\ WF_vars(Ingestion)

-----------------------------------------------------------------------------
(* Specification of single calls.  UnitSpec: one function of the job is    *)
(* called once, with arguments drawn from the sets below; unit keeps the   *)
(* arguments and what the call returned.                                   *)

UnitUrls == {NULL, "", "u1", "u2"}

UnitStoredUrls == {"u1", "u2", "u3"}

\* fetched items: the title tells items of the same url apart
UnitItems == [url : UnitUrls, title : {"a", "b"}]

\* published_at, in hours relative to the call: from weeks ago to weeks ahead
UnitDates == {0 - 2000, 0 - 96, 0 - 95, 0 - 80, 0 - 60, 0 - 48, 0 - 47, 0 - 30, 0, 30, 2000}

UnitPositions == Range(DEFAULT_POSITIONS) \cup {"qa"}

UnitNews ==
    [title : {RichTitle, PlainTitle, MixedTitle, ShortTitle, NoText, NineTitle, TenTitle},
     summary : {NoText, RichTitle, MixedTitle},
     url : {"u1"},
     published_at : UnitDates]

\* fetched items without a title
UnitUntitled ==
    [title : {Missing},
     summary : {NoText, RichTitle},
     url : {"u1"},
     published_at : {0 - 30, 0}]

\* what a task may hand to asyncio.gather: an exception, or a triple with
\* or without a question and any score in tenths from 0.0 to 1.0
UnitResults ==
    [raised : {TRUE}, question_data : {None}, ai_reasoning : {""}, relevance_score : {0}]
    \cup [raised : {FALSE},
          question_data : {None, Some([content |-> "q", position |-> "backend",
                                       difficulty |-> "medium"])},
          ai_reasoning : {"r"},
          relevance_score : MinScore..MaxScore]

UnitReplies == {OkReply, "q", "", "error"}

UnitInit ==
    /\ InitTables
    /\ env = [posts |-> 0, ticks |-> 0, step |-> IntervalHours, hits |-> 0,
              stories |-> 0, db_errors |-> 0, gen_faults |-> 0, observe |-> FALSE]
    /\ unit = [op |-> "none"]

Untouched == UNCHANGED <<now, newsSources, newsItems, questions, newsQuestions, runs,
                         sched, env, hist, apiVars>>

CallFilter ==
    /\ unit.op = "none"
    /\ \E stored_urls \in SUBSET UnitStoredUrls, news_items \in SeqsUpTo(UnitItems, MaxLen) :
          unit' = [op |-> "_filter_new_news_items",
                   stored_urls |-> stored_urls,
                   news_items |-> news_items,
                   out |-> _filter_new_news_items(stored_urls, news_items)]
    /\ Untouched

CallScore ==
    /\ unit.op = "none"
    /\ \E news_item \in UnitNews, position \in UnitPositions :
          unit' = [op |-> "calculate_relevance_score",
                   news_item |-> news_item,
                   position |-> position,
                   out |-> calculate_relevance_score(news_item, position, now)]
    /\ Untouched

\* one item, one position: the generation call, the gate and the rows that
\* _process_source_config builds from what passes
CallGenerate ==
    /\ unit.op = "none"
    /\ \E news_item \in UnitNews \cup UnitUntitled, position \in UnitPositions,
          reply \in UnitReplies :
          \E generated_results \in
                {_generate_questions_for_news_items(<< news_item >>, << position >>,
                                                    << reply >>, now, << 1 >>)} :
             unit' = [op |-> "generate_question_from_news",
                      news_item |-> news_item,
                      position |-> position,
                      reply |-> reply,
                      called |-> CallsModel(news_item),
                      out |-> generate_question_from_news(news_item, position, reply, now),
                      links |-> {LinkRow(1, j, generated_results[j]) :
                                     j \in DOMAIN generated_results}]
    /\ Untouched

\* the gate applied to any gathered results, and the rows built from what
\* passes
CallGather ==
    /\ unit.op = "none"
    /\ \E results \in SeqsUpTo(UnitResults, MaxResults) :
          \E valid_results \in {ValidResults(<< "backend" >>, results, 1)} :
             unit' = [op |-> "gather",
                      results |-> results,
                      out |-> valid_results,
                      links |-> {LinkRow(1, j, valid_results[j]) : j \in DOMAIN valid_results}]
    /\ Untouched

\* FetchNewsRequest.limit is an int without bounds: what a caller may send
UnitLimits == {0 - 2, 0 - 1, 0, 1, 2, DefaultLimit}

UnitSourceConfigs == {NEWS_SOURCES("ai")[1], NEWS_SOURCES("ai")[2]}

\* one source, one limit, one answer of the remote end: the fetch, and the
\* NewsItem rows a run builds from it on an empty news_items table
CallFetch ==
    /\ unit.op = "none"
    /\ \E source_config \in UnitSourceConfigs, limit \in UnitLimits,
          hits \in SeqsUpTo(Range(Hits), MaxLen) :
          \E news_items \in {_fetch_news_for_source(source_config, limit,
                                   [ok |-> TRUE, error |-> "none", hits |-> hits], now)} :
             unit' = [op |-> "_fetch_news_for_source",
                      source_config |-> source_config,
                      limit |-> limit,
                      hits |-> hits,
                      out |-> news_items,
                      created |-> Len(_filter_new_news_items({}, news_items))]
    /\ Untouched

\* the new items of a fan-out: one that gets questions, one whose title is
\* too short
UnitFanOutNews ==
    {[title |-> RichTitle, summary |-> NoText, url |-> "u1", published_at |-> 0],
     [title |-> ShortTitle, summary |-> NoText, url |-> "u2", published_at |-> 0]}

UnitFanOutPositions == << "frontend", "backend" >>

\* lines 555-565: the tasks are created and awaited
FanOutStart ==
    /\ unit.op = "none"
    /\ \E news_items \in SeqsUpTo(UnitFanOutNews, MaxFanOut) \ {<< >>} :
          \E replies \in [1..(Len(news_items) * Len(UnitFanOutPositions)) -> {OkReply, "error"}] :
             unit' = [op |-> "fan_out",
                      news_items |-> news_items,
                      positions |-> UnitFanOutPositions,
                      replies |-> replies,
                      done |-> << >>,
                      gathered |-> FALSE,
                      questions |-> {},
                      links |-> {}]
    /\ Untouched

\* one of the calls completes
FanOutComplete ==
    /\ unit.op = "fan_out"
    /\ ~unit.gathered
    /\ \E k \in DOMAIN unit.replies \ Range(unit.done) :
          unit' = [unit EXCEPT !.done = Append(@, k)]
    /\ Untouched

\* await asyncio.gather(*tasks): it returns when all n tasks have completed
GatherReturns(done, n) == Len(done) = n

\* lines 565-584 and 430-455: gather returns, the valid results are
\* collected and the rows are built from them
FanOutGather ==
    /\ unit.op = "fan_out"
    /\ ~unit.gathered
    /\ GatherReturns(unit.done, Len(unit.replies))
    /\ \E generated_results \in
            {_generate_questions_for_news_items(unit.news_items, unit.positions,
                                                unit.replies, now, unit.done)} :
          unit' = [unit EXCEPT
                      !.gathered = TRUE,
                      !.questions = {QuestionRow(1, j, generated_results[j]) :
                                         j \in DOMAIN generated_results},
                      !.links = {LinkRow(1, j, generated_results[j]) :
                                     j \in DOMAIN generated_results}]
    /\ Untouched

UnitNext ==
    \/ CallFilter
    \/ CallScore
    \/ CallGenerate
    \/ CallGather
    \/ CallFetch
    \/ FanOutStart
    \/ FanOutComplete
    \/ FanOutGather

UnitSpec == UnitInit /\ [][UnitNext]_vars

-----------------------------------------------------------------------------
(* The registration, session and answer endpoints.  Every request is       *)
(* served with a database session of its own.  register_user is split at   *)
(* its awaits, where another request may be served; the other handlers     *)
(* are one step each.                                                      *)

RegIds == 1..MaxRegistrations

\* user_id of a request: an int, whether a user has it or not
RequestUserIds == 1..(MaxRegistrations + 1)

\* answers: the number of words of answer.split() and the words themselves
Answers ==
    {[split |-> 0, words |-> {}],
     [split |-> 12, words |-> {"technical", "API"}],
     [split |-> 60, words |-> {"Technical", "explanation", "examples", "React"}]}

\* what the chat completion of evaluate_answer_ai does: it answers the JSON
\* object asked for, raises an API or network error, answers text that is
\* not JSON, a JSON object with "score": null, or one with "score": "high"
GradingReplies == {"json", "api_error", "not_json", "null_score", "text_score"}

\* fastapi.status
status ==
    [HTTP_200_OK |-> 200, HTTP_201_CREATED |-> 201, HTTP_400_BAD_REQUEST |-> 400,
     HTTP_403_FORBIDDEN |-> 403, HTTP_404_NOT_FOUND |-> 404,
     HTTP_500_INTERNAL_SERVER_ERROR |-> 500]

HTTPException(status_code) == [type |-> "HTTPException", status_code |-> status_code]

\* the except clauses of start_session and evaluate_answer: ValueError is
\* answered with 400, every other Exception with 500; HTTPException is an
\* Exception and not a ValueError
Except(raised) ==
    IF raised.type = "ValueError" THEN status.HTTP_400_BAD_REQUEST
    ELSE status.HTTP_500_INTERNAL_SERVER_ERROR

\* the except clause of complete_session: every Exception is answered with 500
ExceptException(raised) == status.HTTP_500_INTERNAL_SERVER_ERROR

\* the state after start-up, with the endpoints being called: at most regs
\* register_user requests are served at a time, `sessions` sessions are
\* started, `evaluations` answers are stored and `hours` hours pass
ApiEnv(regs, sessions, evaluations, hours) ==
    [posts |-> 0, ticks |-> 0, step |-> IntervalHours, hits |-> 0, stories |-> 0,
     db_errors |-> 0, gen_faults |-> 0, observe |-> FALSE,
     regs |-> regs, sessions |-> sessions, evaluations |-> evaluations, hours |-> hours]

\* all endpoints, one request of each kind
ApiInit ==
    /\ InitTables
    /\ env = ApiEnv(1, 1, 1, 1)
    /\ unit = [op |-> "none"]

\* concurrent registrations
RegisterInit ==
    /\ InitTables
    /\ env = ApiEnv(MaxRegistrations, 0, 0, 0)
    /\ unit = [op |-> "none"]

\* sessions that are started and completed as time passes
SessionInit ==
    /\ InitTables
    /\ env = ApiEnv(1, MaxSessions, 0, MaxApiHours)
    /\ unit = [op |-> "none"]

\* answers that are evaluated
AnswerInit ==
    /\ InitTables
    /\ env = ApiEnv(0, 0, MaxEvaluations, 0)
    /\ unit = [op |-> "none"]

IngestionIdle == UNCHANGED <<newsSources, newsItems, newsQuestions, runs, sched, env, hist, unit>>

\* time passes between two requests
TimePasses ==
    /\ now < env.hours
    /\ now' = now + 1
    /\ UNCHANGED <<questions, apiVars>>
    /\ IngestionIdle

-----------------------------------------------------------------------------
(* POST /api/users/register *)

\* the integer primary key of a new users row
NextUserId == IF users = {} THEN 1
              ELSE 1 + CHOOSE m \in {u.id : u \in users} : \A u \in users : u.id <= m

\* a users table without unique columns
UniqueViolationNever(username, email) == FALSE

\* username and email are unique columns (models.py:15-16): the INSERT of a
\* row whose username or email a committed row has raises IntegrityError
UniqueViolation(username, email) ==
    \E u \in users : u.username = username \/ u.email = email

Replied(i, op, status_code) ==
    /\ registrations' = [registrations EXCEPT
                          ![i] = [pc |-> "idle", username |-> NULL, email |-> NULL, user_id |-> 0]]
    /\ sent' = [op |-> op, username |-> registrations[i].username,
                email |-> registrations[i].email, status_code |-> status_code]

\* lines 42-48: the request arrives and the username is looked up
CheckUsername(i) ==
    /\ i <= env.regs
    /\ registrations[i].pc = "idle"
    /\ \E username \in {"ann", "bob"}, email \in {"ann@x", "bob@x"} :
          IF \E u \in users : u.username = username
          THEN /\ sent' = [op |-> "register_user", username |-> username, email |-> email,
                           status_code |-> status.HTTP_400_BAD_REQUEST]
               /\ UNCHANGED registrations
          ELSE /\ registrations' = [registrations EXCEPT ![i] =
                       [pc |-> "check_email", username |-> username, email |-> email,
                        user_id |-> 0]]
               /\ UNCHANGED sent
    /\ UNCHANGED <<now, questions, users, userPreferences, interviewSessions, answerEvaluations>>
    /\ IngestionIdle

\* lines 50-56: the email is looked up
CheckEmail(i) ==
    /\ registrations[i].pc = "check_email"
    /\ IF \E u \in users : u.email = registrations[i].email
       THEN Replied(i, "register_user", status.HTTP_400_BAD_REQUEST)
       ELSE /\ registrations' = [registrations EXCEPT ![i].pc = "commit_user"]
            /\ UNCHANGED sent
    /\ UNCHANGED <<now, questions, users, userPreferences, interviewSessions, answerEvaluations>>
    /\ IngestionIdle

\* lines 58-66: the users row is added and committed; an IntegrityError is
\* not handled and the request is answered with 500
CommitUser(i) ==
    /\ registrations[i].pc = "commit_user"
    /\ IF UniqueViolation(registrations[i].username, registrations[i].email)
       THEN /\ Replied(i, "register_user", status.HTTP_500_INTERNAL_SERVER_ERROR)
            /\ UNCHANGED users
       ELSE /\ users' = users \cup {[id |-> NextUserId,
                                     username |-> registrations[i].username,
                                     email |-> registrations[i].email]}
            /\ registrations' = [registrations EXCEPT ![i].pc = "commit_preferences",
                                                      ![i].user_id = NextUserId]
            /\ UNCHANGED sent
    /\ UNCHANGED <<now, questions, userPreferences, interviewSessions, answerEvaluations>>
    /\ IngestionIdle

\* lines 68-73: the default preferences are added and committed
CommitPreferences(i) ==
    /\ registrations[i].pc = "commit_preferences"
    /\ userPreferences' = userPreferences \cup {[user_id |-> registrations[i].user_id]}
    /\ Replied(i, "register_user", status.HTTP_201_CREATED)
    /\ UNCHANGED <<now, questions, users, interviewSessions, answerEvaluations>>
    /\ IngestionIdle

register_user ==
    \E i \in RegIds : CheckUsername(i) \/ CheckEmail(i) \/ CommitUser(i) \/ CommitPreferences(i)

-----------------------------------------------------------------------------
(* POST /api/sessions/start and PUT /api/sessions/{session_id}/complete *)

\* the outcome of the body of start_session's try block
StartSessionBody(user_id) ==
    IF ~\E u \in users : u.id = user_id
    THEN [raised |-> Some(HTTPException(status.HTTP_404_NOT_FOUND)), added |-> {}]
    ELSE [raised |-> None,
          added |-> {[id |-> Cardinality(interviewSessions) + 1,
                      user_id |-> user_id,
                      status |-> "active",
                      started_at |-> 0,
                      completed_at |-> None]}]

start_session ==
    /\ Cardinality(interviewSessions) < env.sessions
    /\ \E user_id \in RequestUserIds :
          \E body \in {StartSessionBody(user_id)} :
             /\ interviewSessions' = interviewSessions \cup body.added
             /\ sent' = [op |-> "start_session", user_id |-> user_id,
                         status_code |-> IF body.raised = None THEN status.HTTP_200_OK
                                         ELSE Except(Value(body.raised))]
    /\ UNCHANGED <<now, questions, users, userPreferences, answerEvaluations, registrations>>
    /\ IngestionIdle

\* lines 123-125
Completed(session, t) == [session EXCEPT !.status = "completed", !.completed_at = Some(t)]

\* the outcome of the body of complete_session's try block
CompleteSessionBody(session_id, user_id) ==
    IF ~\E s \in interviewSessions : s.id = session_id
    THEN [raised |-> Some(HTTPException(status.HTTP_404_NOT_FOUND)), rows |-> interviewSessions]
    ELSE LET session == CHOOSE s \in interviewSessions : s.id = session_id IN
         IF session.user_id # user_id
         THEN [raised |-> Some(HTTPException(status.HTTP_403_FORBIDDEN)), rows |-> interviewSessions]
         ELSE [raised |-> None,
               rows |-> (interviewSessions \ {session}) \cup {Completed(session, now)}]

complete_session ==
    /\ \E session_id \in 1..(MaxSessions + 1), user_id \in RequestUserIds :
          \E body \in {CompleteSessionBody(session_id, user_id)} :
             /\ interviewSessions' = body.rows
             /\ sent' = [op |-> "complete_session", session_id |-> session_id,
                         user_id |-> user_id,
                         status_code |-> IF body.raised = None THEN status.HTTP_200_OK
                                         ELSE ExceptException(Value(body.raised))]
    /\ UNCHANGED <<now, questions, users, userPreferences, answerEvaluations, registrations>>
    /\ IngestionIdle

-----------------------------------------------------------------------------
(* POST /api/questions/generate and POST /api/answers/evaluate *)

\* generate_question: the question the chat completion answers is stored,
\* or the call raises and the request is answered with 500
generate_question ==
    /\ Cardinality(questions) < MaxQuestions
    /\ \E reply \in {"q", "error"} :
          IF reply = "error"
          THEN /\ sent' = [op |-> "generate_question",
                           status_code |-> status.HTTP_500_INTERNAL_SERVER_ERROR]
               /\ UNCHANGED questions
          ELSE /\ questions' = questions \cup
                      {[id |-> <<"question", "generate", Cardinality(questions) + 1>>,
                        content |-> reply,
                        position |-> "backend",
                        expected_keywords |-> {"technical", "explanation", "examples"}]}
               /\ sent' = [op |-> "generate_question", status_code |-> status.HTTP_200_OK]
    /\ UNCHANGED <<now, users, userPreferences, interviewSessions, answerEvaluations,
                   registrations>>
    /\ IngestionIdle

\* evaluate_answer_mock: length_score is min(0.8 * answer_length, 40) and
\* keyword_score is 30 * keyword_matches / max(len(expected_keywords), 1);
\* the sum is computed here over the denominator 5 * max(len, 1) and int()
\* rounds it down
evaluate_answer_mock(question_content, answer, expected_keywords) ==
    LET answer_length == answer.split
        keyword_matches == Cardinality({k \in expected_keywords : KeywordIn(Lower(k), answer)})
        n == Max(Cardinality(expected_keywords), 1)
        structure_score == IF answer_length > 20 THEN 20 ELSE answer_length
        clarity_score == 10
        total_score == Min((Min(4 * answer_length, 200) * n + 150 * keyword_matches
                              + 5 * n * (structure_score + clarity_score)) \div (5 * n), 100)
        feedback == IF total_score >= 80 THEN "Excellent answer!"
                    ELSE IF total_score >= 60 THEN "Good answer with room for improvement."
                    ELSE "Your answer needs significant improvement."
    IN [score |-> total_score, feedback |-> feedback]

\* a well-formed grading reply with "score": 85
AiResult == [score |-> Min(Max(85, 0), 100), feedback |-> "feedback of the model"]

\* evaluate_answer_ai: the except clause of line 90 names JSONDecodeError,
\* KeyError and ValueError.  json.loads of text that is not JSON raises
\* JSONDecodeError and int("high") raises ValueError: both fall back.  An
\* error of the API client is none of the three and int(None) raises
\* TypeError: both leave the function as exceptions.
evaluate_answer_ai(question_content, answer, expected_keywords, reply) ==
    CASE reply = "json" -> [raised |-> None, result |-> AiResult]
      [] reply \in {"not_json", "text_score"} ->
            [raised |-> None,
             result |-> evaluate_answer_mock(question_content, answer, expected_keywords)]
      [] reply = "api_error" -> [raised |-> Some([type |-> "APIError"]), result |-> None]
      [] reply = "null_score" -> [raised |-> Some([type |-> "TypeError"]), result |-> None]

\* the outcome of the body of evaluate_answer's try block
EvaluateAnswerBody(question_id, user_id, answer, reply) ==
    IF ~\E q \in questions : q.id = question_id
    THEN [raised |-> Some(HTTPException(status.HTTP_404_NOT_FOUND)), added |-> {}, result |-> None]
    ELSE LET question == CHOOSE q \in questions : q.id = question_id
             evaluation == evaluate_answer_ai(question.content, answer,
                                              question.expected_keywords, reply)
         IN IF evaluation.raised # None
            THEN [raised |-> evaluation.raised, added |-> {}, result |-> None]
            ELSE [raised |-> None,
                  added |-> {[id |-> Cardinality(answerEvaluations) + 1,
                              question_id |-> question_id,
                              user_id |-> user_id,
                              answer |-> answer,
                              score |-> evaluation.result.score,
                              feedback |-> evaluation.result.feedback]},
                  result |-> Some(evaluation.result)]

evaluate_answer ==
    /\ Cardinality(answerEvaluations) < env.evaluations
    /\ \E question_id \in {q.id : q \in questions} \cup {<<"question", "generate", 0>>},
          user_id \in RequestUserIds, answer \in Answers, reply \in GradingReplies :
          \E body \in {EvaluateAnswerBody(question_id, user_id, answer, reply)} :
             /\ answerEvaluations' = answerEvaluations \cup body.added
             /\ sent' = [op |-> "evaluate_answer", question_id |-> question_id,
                         answer |-> answer, reply |-> reply,
                         status_code |-> IF body.raised = None THEN status.HTTP_200_OK
                                         ELSE Except(Value(body.raised)),
                         result |-> body.result,
                         evaluation_ids |-> {e.id : e \in body.added}]
    /\ UNCHANGED <<now, questions, users, userPreferences, interviewSessions, registrations>>
    /\ IngestionIdle

ApiNext ==
    \/ TimePasses
    \/ register_user
    \/ start_session
    \/ complete_session
    \/ generate_question
    \/ evaluate_answer

ApiSpec == ApiInit /\ [][ApiNext]_vars

RegisterSpec == RegisterInit /\ [][register_user]_vars

SessionNext ==
    \/ TimePasses
    \/ register_user
    \/ start_session
    \/ complete_session

SessionSpec == SessionInit /\ [][SessionNext]_vars

AnswerNext ==
    \/ generate_question
    \/ evaluate_answer

AnswerSpec == AnswerInit /\ [][AnswerNext]_vars

-----------------------------------------------------------------------------
(* Properties *)

\* C1: in every reachable database state no two NewsItem rows have the same
\* URL, whatever the sequence and interleaving of scheduled and requested
\* ingestion runs.
C1_UniqueUrls ==
    \A a, b \in newsItems : a.url = b.url => a.id = b.id

\* C2: at most one execution of process_news_and_generate_questions is in
\* progress at any time, whether started by a tick or by one of the two
\* endpoints.
C2_OneOrchestrator ==
    Cardinality({r \in RunIds : InOrchestrator(r)}) <= 1

\* C2, amended: at most one instance of the scheduled job is in progress at
\* any time, so of two executions in progress at least one was started by an
\* endpoint.
C2_OneScheduledInstance ==
    \A a, b \in RunIds :
        (a # b /\ runs[a].pc # "idle" /\ runs[b].pc # "idle")
            => (runs[a].origin # "scheduler" \/ runs[b].origin # "scheduler")

\* C2: the second tick has fired and was not executed, because the instance
\* of the first tick is still in the orchestrator, as is a requested run
C2_TickWhileRunning ==
    \E a, b \in RunIds :
        /\ a # b
        /\ runs[a].origin = "scheduler" /\ InOrchestrator(a)
        /\ runs[b].origin \in {"fetch-news", "scheduled-fetch"} /\ InOrchestrator(b)
        /\ sched.executed = 1
        /\ sched.next_run_time = 2 * IntervalHours

\* C3: if, when a scheduled tick fires, some NewsSource has last_fetched
\* >= now - 4h, the tick is skipped entirely: the job ends without invoking
\* the orchestrator (so without any fetch or generation call) and no row of
\* any table is created or modified.
C3_RecentFetchSkipsTick ==
    [][\A r \in RunIds :
          (/\ runs[r].pc = "guard"
           /\ runs'[r] # runs[r]
           /\ \E s \in newsSources : s.last_fetched # << >> /\ s.last_fetched[1] >= now - 4)
          => (/\ runs'[r].pc = "idle"
              /\ UNCHANGED <<newsSources, newsItems, questions, newsQuestions>>)]_vars

\* C3: a tick was skipped because a source had been fetched two hours
\* before it
C3_SkippedWithinInterval ==
    /\ sched.last_outcome = "skipped"
    /\ \A r \in RunIds : runs[r].pc = "idle"
    /\ \E s \in newsSources : s.last_fetched = << now - 2 >>

\* C4: an exception raised in a scheduled run (in the guard query or in the
\* orchestrator) is caught inside the job: as long as the trigger has ticks
\* left, the next tick fires and executes the job again.
C4_NextTickAfterFailure ==
    \A n \in 0..MaxTicks :
        (sched.last_outcome = "failed" /\ sched.executed = n /\ env.ticks > 0)
            ~> (sched.executed > n)

\* C4: the first execution of the job ended with an exception and the job is
\* executing again
C4_ExecutedAfterFailure ==
    /\ env.db_errors < MaxDbErrors
    /\ newsSources = {}
    /\ sched.executed = 2
    /\ sched.last_outcome = "running"

\* the Question rows that run r is about to commit for its i-th new item and
\* the role at index p of DEFAULT_POSITIONS
C5_QuestionsFor(r, i, p) ==
    {q \in runs[r].pending.questions :
        /\ q.position = DEFAULT_POSITIONS[p]
        /\ \E l \in runs[r].pending.links :
              l.question_id = q.id /\ l.news_item_id = <<"news", runs[r].origin,
                                                         runs[r].serial, Len(runs[r].todo), i>>}

\* C5: within one source run, a generation call that fails for one (news
\* item, role) pair yields no Question/NewsBasedQuestion for that pair only:
\* every pair of the run whose call succeeds and is accepted (the item's
\* title has at least 10 characters) gets exactly one Question with one
\* NewsBasedQuestion, every other pair none.
C5_FailureIsolated ==
    \A r \in RunIds :
        (runs[r].pc = "commit" /\ runs[r].fresh # << >>)
        => /\ Cardinality(runs[r].pending.questions) = Cardinality(runs[r].pending.links)
           /\ \A i \in 1..Len(runs[r].fresh), p \in 1..5 :
                 Cardinality(C5_QuestionsFor(r, i, p)) =
                    IF /\ runs[r].replies[(i - 1) * 5 + p] # "error"
                       /\ runs[r].fresh[i].title.len >= 10
                    THEN 1 ELSE 0

\* C5: the call for the first new item and role backend raised, the call for
\* the same item and role frontend succeeded: one pair for frontend, none
\* for backend
C5_BackendFailsFrontendSucceeds ==
    \E r \in RunIds :
        /\ runs[r].pc = "commit" /\ runs[r].fresh # << >>
        /\ runs[r].replies[2] = "error"
        /\ runs[r].replies[1] = "QUESTION: q REASONING: r"
        /\ Cardinality(C5_QuestionsFor(r, 1, 1)) = 1
        /\ Cardinality(C5_QuestionsFor(r, 1, 2)) = 0

\* C6: a Question/NewsBasedQuestion pair is persisted for a generation result
\* only if its relevance score is strictly greater than 0.3 (3 tenths): the
\* rows built from gathered results are exactly those of the results that
\* carry a question and a score above 0.3, and a result with score 0.3 or
\* less, the 0.0 of a failed or rejected call included, produces no row.
C6_OnlyAboveThreshold ==
    /\ unit.op = "gather" =>
          /\ \A l \in unit.links : l.relevance_score > 3
          /\ Cardinality(unit.links) =
                 Cardinality({k \in DOMAIN unit.results :
                                 /\ ~unit.results[k].raised
                                 /\ unit.results[k].question_data # << >>
                                 /\ unit.results[k].relevance_score > 3})
    /\ unit.op = "generate_question_from_news" =>
          /\ \A l \in unit.links : l.relevance_score > 3
          /\ unit.out.relevance_score <= 3 => unit.links = {}

\* C6: of two gathered results that carry a question, the one with score 0.3
\* gives no row and the one with score 0.4 gives one
C6_AtAndAboveThreshold ==
    /\ unit.op = "gather"
    /\ Len(unit.results) = 2
    /\ unit.results[1].question_data # << >> /\ unit.results[1].relevance_score = 3
    /\ unit.results[2].question_data # << >> /\ unit.results[2].relevance_score = 4
    /\ Cardinality(unit.links) = 1
    /\ \A l \in unit.links : l.relevance_score = 4

\* C7: calculate_relevance_score returns a value in [0.0, 1.0] (0 to 10
\* tenths) for every role, every number of matched keywords and every item
\* age, items dated in the future included, and every relevance_score put on a
\* NewsBasedQuestion row lies in [0.0, 1.0].
C7_ScoreInRange ==
    /\ unit.op = "calculate_relevance_score" => (unit.out >= 0 /\ unit.out <= 10)
    /\ unit.op = "generate_question_from_news" =>
          /\ unit.out.relevance_score >= 0 /\ unit.out.relevance_score <= 10
          /\ \A l \in unit.links : l.relevance_score >= 0 /\ l.relevance_score <= 10

\* C7: an item dated in the future whose title matches eight keywords of the
\* role scores 1.0
C7_FutureItemAtMaximum ==
    /\ unit.op = "calculate_relevance_score"
    /\ unit.news_item.published_at > now
    /\ unit.news_item.title = RichTitle
    /\ unit.position = "frontend"
    /\ unit.out = 10

\* the indices of the items the filter has to keep
C10_Kept(news_items, stored_urls) ==
    {i \in DOMAIN news_items :
        /\ news_items[i].url \notin {NULL, ""}
        /\ news_items[i].url \notin stored_urls
        /\ \A j \in 1..(i - 1) : news_items[j].url # news_items[i].url}

\* C10: for every fetched item list and every set of stored URLs the filter
\* returns exactly the items, in input order, whose URL is present and
\* non-empty, does not occur earlier in the list and is not stored; of items
\* with the same URL the first is the one kept.
C10_FilterExact ==
    unit.op = "_filter_new_news_items" =>
        LET kept == C10_Kept(unit.news_items, unit.stored_urls) IN
        /\ Len(unit.out) = Cardinality(kept)
        /\ \A n \in 1..Len(unit.out) :
              unit.out[n] = unit.news_items[CHOOSE i \in kept :
                                               Cardinality({j \in kept : j < i}) = n - 1]

\* C10: two different items with the same new URL followed by an item whose
\* URL is stored: only the first is returned
C10_FirstOccurrenceKept ==
    /\ unit.op = "_filter_new_news_items"
    /\ Len(unit.news_items) = 3
    /\ unit.news_items[1].url = "u1" /\ unit.news_items[2].url = "u1"
    /\ unit.news_items[1] # unit.news_items[2]
    /\ unit.news_items[3].url = "u2" /\ "u2" \in unit.stored_urls
    /\ "u1" \notin unit.stored_urls
    /\ unit.out = << unit.news_items[1] >>

\* the URLs of the items a run has found to be new
C8_FreshUrls(r) == {runs[r].fresh[i].url : i \in DOMAIN runs[r].fresh}

\* C8: every NewsItem row created by a source run is marked processed exactly
\* once, when the run commits, whether or not a question was accepted for it:
\* a commit adds one row per new item of the run, every row is processed from
\* the moment it is committed, and a committed row is never changed again.
C8_ProcessedAtCommit ==
    [][/\ \A n \in newsItems' \ newsItems : n.is_processed = TRUE
       /\ \A n \in newsItems : n \in newsItems'
       /\ \A r \in RunIds :
             (runs[r].pc = "commit" /\ runs'[r] # runs[r] /\ env' = env)
             => /\ Cardinality(newsItems' \ newsItems) = Len(runs[r].fresh)
                /\ {n.url : n \in newsItems' \ newsItems} = C8_FreshUrls(r)]_vars

\* C8: a source returned 3 items with 3 different URLs, one of them stored
\* already: 2 rows were created; all rows are processed, the one of the story
\* whose title is too short for a question included
C8_ThreeFetchedTwoCreated ==
    /\ \A r \in RunIds : runs[r].pc = "idle"
    /\ \E h \in hist :
          /\ h.committed
          /\ Len(h.fetched) = 3
          /\ Cardinality({h.fetched[i].url : i \in 1..3}) = 3
          /\ h.created = 2
    /\ Cardinality(newsItems) = 3
    /\ \A n \in newsItems : n.is_processed = TRUE
    /\ \E n \in newsItems : n.url = "u2" /\ \A l \in newsQuestions : l.news_item_id # n.id

C11_RollbackKeepsEarlier ==
    [][\A r \in RunIds :
          (/\ runs[r].pc \in {"get_source", "fetch", "filter", "generate", "commit"}
           /\ env'.db_errors < env.db_errors
           /\ runs'[r].pc = "idle")
          => /\ newsSources' = newsSources
             /\ newsItems' = newsItems
             /\ questions' = questions
             /\ newsQuestions' = newsQuestions
             /\ runs[r].pending.sources \cap newsSources' = {}
             /\ runs[r].pending.items \cap newsItems' = {}
             /\ runs[r].pending.questions \cap questions' = {}
             /\ runs[r].pending.links \cap newsQuestions' = {}]_vars

\* C11: the first run committed the dev.to source of category ai with its
\* stamp, then failed in the batch of the Hacker News source after a fetch
\* that returned items: no NewsItem row and no row of that source remain
C11_SecondSourceRolledBack ==
    /\ sched.executed = 1 /\ sched.last_outcome = "failed"
    /\ \A r \in RunIds : runs[r].pc = "idle"
    /\ \E h \in hist : h.url = "hn.algolia.com/search?query=AI" /\ ~h.committed
                          /\ h.fetched # << >>
    /\ \E s \in newsSources : s.url = "dev.to/feed/tag/ai" /\ s.last_fetched # << >>
    /\ \A s \in newsSources : s.url # "hn.algolia.com/search?query=AI"
    /\ newsItems = {} /\ questions = {} /\ newsQuestions = {}

\* the last unit of the source ended with a persistence error after its fetch
C12_FailedAt(source) ==
    \E h \in hist : h.url = source.config.url /\ h.category = source.category /\ ~h.committed

\* _process_source_config is entered for the source
C12_Attempting(source) ==
    \E r \in RunIds : runs[r].pc = "get_source" /\ Head(runs[r].todo) = source

\* C12: after a run in which source S failed with a persistence error (so
\* S's last_fetched was left unchanged), the next scheduled tick invokes the
\* orchestrator and attempts S again: the guard of a tick that fires while
\* the failure of a source is outstanding starts the orchestrator.
C12_NextTickRetries ==
    [][\A r \in RunIds :
          (/\ runs[r].pc = "guard" /\ runs'[r] # runs[r]
           /\ env'.db_errors = env.db_errors
           /\ \E i \in DOMAIN SourcesToProcess(NULL) : C12_FailedAt(SourcesToProcess(NULL)[i]))
          => runs'[r].pc = "get_source"]_vars

\* C12, amended: after a run in which source S failed with a persistence
\* error, S is attempted again by the first tick that finds no source fetched
\* within the last four hours: once no committed last_fetched lies within
\* four hours before the next run time, the trigger has a tick left and no
\* further database operation fails, the orchestrator is invoked and enters
\* _process_source_config for S.
C12_RetriedWhenGuardPasses ==
    \A i \in DOMAIN SourcesToProcess(NULL) :
        (/\ C12_FailedAt(SourcesToProcess(NULL)[i])
         /\ \A r \in RunIds : runs[r].pc = "idle"
         /\ env.ticks > 0 /\ env.db_errors = 0
         /\ \A s \in newsSources :
               s.last_fetched = << >> \/ s.last_fetched[1] < sched.next_run_time - 4)
            ~> C12_Attempting(SourcesToProcess(NULL)[i])

\* C12: the Hacker News unit of an earlier run was rolled back; the third
\* execution of the job is in the orchestrator and enters the unit again
C12_HackerNewsRetried ==
    /\ sched.executed = 3
    /\ env.db_errors = 0
    /\ \E i \in DOMAIN SourcesToProcess(NULL) :
          /\ SourcesToProcess(NULL)[i].config.type = "api"
          /\ C12_FailedAt(SourcesToProcess(NULL)[i])
          /\ C12_Attempting(SourcesToProcess(NULL)[i])

\* C13: when a source's fetch returns no items, or every fetched item is
\* removed by deduplication, the unit still sets the source's last_fetched to
\* the current time and commits; it makes no generation call and creates no
\* NewsItem, Question or NewsBasedQuestion row (it returns 0): on the early
\* return the session holds the stamp of the current time and no row of
\* those tables, and the commit writes the stamp and changes no other table.
C13_EmptyUnitStampsOnly ==
    [][\A r \in RunIds :
          /\ (runs[r].pc # "commit" /\ runs'[r].pc = "commit" /\ runs'[r].fresh = << >>)
             => /\ runs'[r].pending.stamp = << now >>
                /\ runs'[r].pending.items = {}
                /\ runs'[r].pending.questions = {}
                /\ runs'[r].pending.links = {}
                /\ runs'[r].replies = << >>
          /\ (runs[r].pc = "commit" /\ runs[r].fresh = << >> /\ runs'[r] # runs[r]
                 /\ env' = env)
             => /\ newsItems' = newsItems
                /\ questions' = questions
                /\ newsQuestions' = newsQuestions
                /\ \E s \in newsSources' :
                      /\ s.id = runs[r].source
                      /\ s.url = Head(runs[r].todo).config.url
                      /\ s.category = Head(runs[r].todo).category
                      /\ s.last_fetched = runs[r].pending.stamp]_vars

\* C13: the last unit of the Hacker News source fetched items that were all
\* stored already: it created no row and committed the stamp of the current
\* time; the last unit of an rss source fetched nothing and committed too
C13_AllRemovedStillStamped ==
    /\ \E h \in hist :
          /\ h.committed /\ h.fetched # << >> /\ h.created = 0
          /\ \E s \in newsSources :
                s.url = h.url /\ s.category = h.category /\ s.last_fetched = << now >>
    /\ \E h \in hist :
          /\ h.committed /\ h.fetched = << >>
          /\ \E s \in newsSources :
                s.url = h.url /\ s.category = h.category /\ s.last_fetched = << now >>
    /\ now > 0

\* C14: every NewsBasedQuestion row of a committed state references a
\* NewsItem row and a Question row that both exist in that state, also after
\* a source run failed or was rolled back partway; and the rows a session
\* holds reference rows that the session holds or that are committed.
C14_LinksReferenceRows ==
    /\ \A l \in newsQuestions :
          /\ \E n \in newsItems : n.id = l.news_item_id
          /\ \E q \in questions : q.id = l.question_id
    /\ \A r \in RunIds : \A l \in runs[r].pending.links :
          /\ \E n \in newsItems \cup runs[r].pending.items : n.id = l.news_item_id
          /\ \E q \in questions \cup runs[r].pending.questions : q.id = l.question_id

\* C14: NewsBasedQuestion rows are committed, a generation call has failed
\* and a run was rolled back by a database error
C14_LinksAfterRollback ==
    /\ newsQuestions # {}
    /\ env.db_errors = 0 /\ env.gen_faults = 0
    /\ sched.last_outcome = "failed"
    /\ \A r \in RunIds : runs[r].pc = "idle"

\* C15: given an item whose title is missing, empty or shorter than 10
\* characters, generate_question_from_news makes no call to the generation
\* service and returns (None, "", 0.0), whatever the role and whatever the
\* service would have answered, so no Question/NewsBasedQuestion row is built
\* for the item.
C15_ShortTitleNoCall ==
    (unit.op = "generate_question_from_news" /\ unit.news_item.title.len < 10)
    => /\ ~unit.called
       /\ unit.out = [raised |-> FALSE, question_data |-> << >>, ai_reasoning |-> "",
                      relevance_score |-> 0]
       /\ unit.links = {}

\* C15: the title "AI" is given to the generator for role frontend, with a
\* service that would have answered with a question: nothing is returned
C15_TitleAI ==
    /\ unit.op = "generate_question_from_news"
    /\ unit.news_item.title = [len |-> 2, words |-> {"AI"}]
    /\ unit.position = "frontend"
    /\ unit.reply = "QUESTION: q REASONING: r"
    /\ ~unit.called
    /\ unit.out.question_data = << >> /\ unit.out.relevance_score = 0
    /\ unit.links = {}

\* C16: a NewsSource's last_fetched is the time of its last successful
\* fetch: a unit whose fetch failed (network, HTTP status, timeout or parse
\* error) leaves the last_fetched of its source unchanged when it commits.
C16_FailedFetchKeepsStamp ==
    [][\A r \in RunIds :
          (runs[r].pc = "commit" /\ runs'[r] # runs[r] /\ ~runs[r].fetch_ok)
          => \A s \in newsSources' :
                s.id = runs[r].source
                => IF \E o \in newsSources : o.id = s.id
                   THEN s \in newsSources
                   ELSE s.last_fetched = << >>]_vars

\* C16, amended: a NewsSource's last_fetched is the time of the last unit of
\* that source that committed, whether its fetch succeeded, returned nothing
\* or failed: every unit that commits writes its stamp to the row of its
\* source, and a source row is created or changed by nothing but the commit
\* of a unit of that source (a unit that is rolled back changes nothing).
C16_StampedByEveryCommit ==
    [][/\ \A r \in RunIds :
             (runs[r].pc = "commit" /\ runs'[r] # runs[r] /\ env'.db_errors = env.db_errors)
             => /\ runs[r].pending.stamp # << >>
                /\ \E s \in newsSources' :
                      s.id = runs[r].source /\ s.last_fetched = runs[r].pending.stamp
       /\ \A s \in newsSources' :
             s \notin newsSources
             => \E r \in RunIds :
                   /\ runs[r].pc = "commit" /\ env'.db_errors = env.db_errors
                   /\ runs[r].source = s.id
                   /\ s.last_fetched = runs[r].pending.stamp]_vars

\* C16: the last fetch of the Hacker News source failed and its unit
\* committed: the source, whose earlier unit had stored an item, is stamped
\* with the current time
C16_FailedFetchStamped ==
    /\ now > 0
    /\ \E h \in hist :
          /\ h.url = "hn.algolia.com/search?query=AI"
          /\ h.committed /\ ~h.fetch_ok
          /\ \E s \in newsSources :
                /\ s.url = h.url /\ s.category = h.category
                /\ s.last_fetched = << now >>
    /\ \E n \in newsItems : n.is_processed

\* C17: NewsSource rows are unique per (url, category) pair in every
\* execution in which ingestion runs do not overlap, but not otherwise: a
\* row for a pair that already has a row is only ever added by the commit of
\* a run that executed the orchestrator while another run did, having passed
\* the existence check before the other row was committed.
C17_DuplicateOnlyByOverlap ==
    [][\A s \in newsSources' :
          (/\ \A o \in newsSources : o.id # s.id
           /\ \E o \in newsSources : o.url = s.url /\ o.category = s.category)
          => \E r \in RunIds :
                /\ runs[r].pc = "commit"
                /\ runs[r].source = s.id
                /\ runs[r].overlapped]_vars

\* C17: a scheduled run and a requested run have both committed a NewsSource
\* row for the same (url, category) pair
C17_TwoRowsForOnePair ==
    \E a, b \in newsSources :
        /\ a.url = b.url /\ a.category = b.category
        /\ a.id[2] = "scheduler"
        /\ b.id[2] \in {"fetch-news", "scheduled-fetch"}

\* C18: if the orchestrator crashes after persisting a source's NewsItem rows
\* (step d) and before stamping last_fetched (step h), the store is left with
\* those NewsItem rows present and marked unprocessed: the exception that
\* ends a unit whose rows are flushed and not yet marked leaves them stored.
C18_CrashLeavesUnprocessed ==
    [][\A r \in RunIds :
          (/\ runs[r].pc = "generate"
           /\ env'.db_errors < env.db_errors
           /\ runs'[r].pc = "idle")
          => \E n \in newsItems' : n \in runs[r].pending.items /\ ~n.is_processed]_vars

\* C18, amended: a crash after step (d) and before step (h) leaves none of
\* the unit's NewsItem rows in the store, because step (d) only flushes them
\* into the open transaction, which is committed once, after the processed
\* marks: every stored NewsItem is marked processed in every reachable state,
\* and a row that a session holds unprocessed or that a rolled-back unit held
\* is not stored.
C18_StoredItemsProcessed ==
    /\ \A n \in newsItems : n.is_processed
    /\ \A r \in RunIds : \A n \in runs[r].pending.items :
          \A m \in newsItems : m.id # n.id
    /\ \A h \in hist : \A n \in h.flushed : \A m \in newsItems : m.id # n.id

\* C18: a unit was ended by an exception while its session held flushed
\* NewsItem rows that were not yet marked processed; the store has no
\* NewsItem row
C18_CrashedAfterFlush ==
    /\ \E h \in hist : ~h.committed /\ \E n \in h.flushed : ~n.is_processed
    /\ \A r \in RunIds : runs[r].pc = "idle"
    /\ sched.last_outcome = "failed"
    /\ newsItems = {}

\* the (item, role) pairs that have a Question linked to the item's row
C19_Pairs ==
    {<< lq[1].news_item_id[5], lq[2].position >> :
        lq \in {x \in unit.links \X unit.questions : x[2].id = x[1].question_id}}

\* C19: the rows persisted by a source run (which (item, role) pairs get a
\* Question, and which NewsItem each NewsBasedQuestion links to) are the same
\* for every completion order of the concurrent generation calls: the pairs
\* are those whose call did not fail and whose item has a title of at least
\* 10 characters, one Question and one NewsBasedQuestion each; and no
\* Question or NewsBasedQuestion is added before all calls of the fan-out
\* have completed.
C19_OrderIrrelevantAllAwaited ==
    unit.op = "fan_out" =>
        /\ ~unit.gathered => (unit.questions = {} /\ unit.links = {})
        /\ Len(unit.done) < Len(unit.replies) => (unit.questions = {} /\ unit.links = {})
        /\ unit.gathered =>
              /\ C19_Pairs =
                    {<< ip[1], unit.positions[ip[2]] >> :
                        ip \in {x \in (1..Len(unit.news_items)) \X (1..2) :
                                   /\ unit.news_items[x[1]].title.len >= 10
                                   /\ unit.replies[((x[1] - 1) * 2) + x[2]] # "error"}}
              /\ Cardinality(unit.links) = Cardinality(C19_Pairs)
              /\ Cardinality(unit.questions) = Cardinality(C19_Pairs)

\* C19: two items with four calls that completed last call first; the call
\* for the second item and role backend failed: questions for the other
\* three pairs, each linked to its own item
C19_ReverseCompletion ==
    /\ unit.op = "fan_out" /\ unit.gathered
    /\ unit.done = << 4, 3, 2, 1 >>
    /\ unit.news_items[1].title.len >= 10 /\ unit.news_items[2].title.len >= 10
    /\ unit.replies = << "QUESTION: q REASONING: r", "QUESTION: q REASONING: r",
                         "QUESTION: q REASONING: r", "error" >>
    /\ C19_Pairs = {<< 1, "frontend" >>, << 1, "backend" >>, << 2, "frontend" >>}

\* C20: both fetchers never raise to the caller: on any network error,
\* non-success HTTP status, timeout, parse or decode error they return an
\* empty item list, and the orchestrator goes on with the source as one that
\* yielded no items: the step in which a fetch returns never ends the run, a
\* failed fetch gives the unit no item and takes it to the early return with
\* the stamp, and the commit that follows goes on to the next source.
C20_FetchFailureIsNoItems ==
    [][\A r \in RunIds :
          /\ (runs[r].pc = "fetch" /\ runs'[r] # runs[r])
             => /\ runs'[r].pc \in {"filter", "commit"}
                /\ runs'[r].todo = runs[r].todo
                /\ sched' = sched
                /\ ~runs'[r].fetch_ok
                   => /\ runs'[r].news_items = << >>
                      /\ runs'[r].pc = "commit"
                      /\ runs'[r].pending.stamp = << now >>
                      /\ runs'[r].pending.items = {}
          /\ (runs[r].pc = "get_source" /\ runs'[r] # runs[r]
                 /\ env'.db_errors = env.db_errors /\ runs'[r].pc # "idle"
                 /\ Head(runs[r].todo).config.type = "rss")
             => /\ ~runs'[r].fetch_ok
                /\ runs'[r].news_items = << >>
                /\ runs'[r].pc = "commit"
                /\ runs'[r].pending.stamp = << now >>
          /\ (runs[r].pc = "commit" /\ ~runs[r].fetch_ok /\ runs'[r] # runs[r]
                 /\ env'.db_errors = env.db_errors /\ Len(runs[r].todo) > 1)
             => /\ runs'[r].pc = "get_source"
                /\ runs'[r].todo = Tail(runs[r].todo)]_vars

\* C20: the request to the Hacker News search failed in the first run; its
\* unit committed without an item and the same run is at the next source
C20_NextSourceAfterFailure ==
    /\ sched.executed = 1
    /\ \E h \in hist :
          /\ h.url = "hn.algolia.com/search?query=AI"
          /\ ~h.fetch_ok /\ h.committed /\ h.fetched = << >> /\ h.created = 0
    /\ \E r \in RunIds :
          /\ runs[r].pc = "get_source"
          /\ Head(runs[r].todo).category = "web_dev"
    /\ newsItems = {}

\* C21: for every caller-supplied limit, zero and negative limits included,
\* a fetcher returns at most max(limit, 0) items, and a source run creates at
\* most max(limit, 0) NewsItem rows.
C21_AtMostLimit ==
    unit.op = "_fetch_news_for_source" =>
        /\ Len(unit.out) <= Max(unit.limit, 0)
        /\ unit.created <= Max(unit.limit, 0)

\* C22: when the grading call fails for any reason (an API or network
\* error, a reply that is not JSON, a null or otherwise wrongly typed score),
\* the answer is evaluated by the keyword-matching mock evaluation, and
\* evaluate_answer stores one AnswerEvaluation row and returns its result.
C22_FallsBackOnEveryFailure ==
    (sent.op = "evaluate_answer" /\ sent.reply # "json"
        /\ \E q \in questions : q.id = sent.question_id) =>
        LET question == CHOOSE q \in questions : q.id = sent.question_id
            mock == evaluate_answer_mock(question.content, sent.answer,
                                         question.expected_keywords)
        IN /\ sent.status_code = status.HTTP_200_OK
           /\ sent.result = Some(mock)
           /\ Cardinality(sent.evaluation_ids) = 1
           /\ \A e \in answerEvaluations :
                 e.id \in sent.evaluation_ids =>
                    /\ e.question_id = sent.question_id
                    /\ e.answer = sent.answer
                    /\ e.score = mock.score
                    /\ e.feedback = mock.feedback
           /\ sent.evaluation_ids \subseteq {e.id : e \in answerEvaluations}

C24_LaterSourcesProcessed ==
    [][\A r \in RunIds :
          (/\ InOrchestrator(r) /\ env'.db_errors < env.db_errors /\ runs'[r] # runs[r]
           /\ Len(runs[r].todo) > 1)
          => /\ runs'[r].pc = "get_source"
             /\ runs'[r].todo = Tail(runs[r].todo)]_vars

\* C24 as amended: a persistence error raised while processing a source ends
\* the run: the handler around both loops rolls back, no table changes, and
\* the sources that come after are not looked up, fetched or stamped by
\* this run.
C24_PersistenceErrorEndsRun ==
    [][\A r \in RunIds :
          (InOrchestrator(r) /\ env'.db_errors < env.db_errors /\ runs'[r] # runs[r])
          => /\ runs'[r] = Idle
             /\ newsSources' = newsSources
             /\ newsItems' = newsItems]_vars

\* C24 witness: the first tick's run failed at the commit of its first source;
\* the run is over and no other source has a row
C24_FirstSourceFailedNoneFollowed ==
    /\ sched.executed = 1 /\ sched.last_outcome = "failed"
    /\ \A r \in RunIds : runs[r].pc = "idle"
    /\ \E h \in hist : h.url = "dev.to/feed/tag/ai" /\ ~h.committed
    /\ newsSources = {}

\* C25: with the timer alone, the run started by one tick never causes the
\* tick one interval later to be skipped: the job of every scheduled tick
\* invokes the orchestrator.
C25_EveryTickInvokes ==
    [][\A r \in RunIds :
          (runs[r].pc = "guard" /\ runs'[r] # runs[r] /\ env'.db_errors = env.db_errors)
          => runs'[r].pc = "get_source"]_vars

\* C25 as amended: the job of a tick invokes the orchestrator exactly when no
\* source has a last_fetched within the four hours before its guard query;
\* a stamp made by the run of the tick one interval earlier is within them,
\* and the tick is skipped.
C25_InvokedUnlessStampedWithinInterval ==
    [][\A r \in RunIds :
          (runs[r].pc = "guard" /\ runs'[r] # runs[r] /\ env'.db_errors = env.db_errors)
          => IF \E s \in newsSources :
                    s.last_fetched # None /\ now - Value(s.last_fetched) <= GuardHours
             THEN /\ runs'[r].pc = "idle"
                  /\ sched'.last_outcome = "skipped"
             ELSE runs'[r].pc = "get_source"]_vars

\* C25 witness: the run of the first tick stamped its sources at hour 0 and
\* ended; the tick at hour 4 was skipped
C25_SecondTickSkipped ==
    /\ now = IntervalHours
    /\ sched.executed = 2
    /\ sched.last_outcome = "skipped"
    /\ env.db_errors = MaxDbErrors
    /\ \A r \in RunIds : runs[r].pc = "idle"
    /\ \A s \in newsSources : s.last_fetched = Some(0)
    /\ Cardinality(newsSources) = Len(SourcesToProcess(NULL))

\* the request answered by `reply` was one of: complete_session for an
\* unknown session or for a session of another user, start_session for an
\* unknown user, evaluate_answer for an unknown question
C26_ErrorCase(reply) ==
    \/ /\ reply.op = "complete_session"
       /\ \A s \in interviewSessions : s.id = reply.session_id => s.user_id # reply.user_id
    \/ /\ reply.op = "start_session"
       /\ ~\E u \in users : u.id = reply.user_id
    \/ /\ reply.op = "evaluate_answer"
       /\ ~\E q \in questions : q.id = reply.question_id

\* the status of the last response, where it answered one of these requests
C26_Statuses ==
    /\ (sent.op = "complete_session" /\ ~\E s \in interviewSessions : s.id = sent.session_id)
          => sent.status_code = status.HTTP_404_NOT_FOUND
    /\ (sent.op = "complete_session"
          /\ \E s \in interviewSessions : s.id = sent.session_id /\ s.user_id # sent.user_id)
          => sent.status_code = status.HTTP_403_FORBIDDEN
    /\ (sent.op = "start_session" /\ ~\E u \in users : u.id = sent.user_id)
          => sent.status_code = status.HTTP_404_NOT_FOUND
    /\ (sent.op = "evaluate_answer" /\ ~\E q \in questions : q.id = sent.question_id)
          => sent.status_code = status.HTTP_404_NOT_FOUND

\* C26: complete_session answers 404 for an unknown session and 403 for a
\* session owned by another user, start_session answers 404 for an unknown
\* user, evaluate_answer answers 404 for an unknown question, and in each of
\* these cases no row is created or modified.
C26_ErrorsCarryStatusAndChangeNothing ==
    /\ []C26_Statuses
    /\ [][(sent' # sent /\ C26_ErrorCase(sent'))
            => UNCHANGED <<questions, users, userPreferences, interviewSessions,
                           answerEvaluations>>]_vars

\* C27: a session goes from active to completed only: completed_at is set
\* exactly when the status is "completed", and once a session is completed
\* its status and completed_at never change again, whatever further
\* complete_session calls its owner makes.
C27_CompletedIsFinal ==
    /\ [](\A s \in interviewSessions : s.completed_at # None <=> s.status = "completed")
    /\ [][\A s \in interviewSessions :
             s.status = "completed" =>
                \E n \in interviewSessions' :
                    n.id = s.id /\ n.status = s.status /\ n.completed_at = s.completed_at]_vars

\* no two users rows share a username or an email, and every
\* user_preferences row belongs to a users row
C28_UniqueColumns ==
    /\ \A u, v \in users : u # v => (u.username # v.username /\ u.email # v.email /\ u.id # v.id)
    /\ \A p \in userPreferences : \E u \in users : u.id = p.user_id

\* the username or the email of the request is that of a users row
C28_Taken(registration) ==
    \E u \in users : u.username = registration.username \/ u.email = registration.email

\* C28: no two User rows ever share a username or an email, however the
\* steps of concurrent register_user requests interleave, and a registration
\* whose username or email is already taken creates neither a User row nor
\* a UserPreferences row: whatever step it takes, it adds no row, and every
\* response other than 201 leaves both tables as they are.
C28_NoDuplicateUsers ==
    /\ []C28_UniqueColumns
    /\ [][\A i \in RegIds :
             (/\ registrations[i].pc \in {"check_email", "commit_user"}
              /\ registrations'[i] # registrations[i]
              /\ C28_Taken(registrations[i]))
             => /\ UNCHANGED <<users, userPreferences>>
                /\ registrations'[i].pc # "commit_preferences"]_vars
    /\ [][(sent' # sent /\ sent'.status_code # status.HTTP_201_CREATED)
            => UNCHANGED <<users, userPreferences>>]_vars

\* C28 witness: two requests with the same username passed both checks
\* before either committed; the second commit was rejected and answered with
\* 500, and the users table holds one row of that name and its preferences
C28_SecondCommitRejected ==
    /\ sent.op = "register_user"
    /\ sent.status_code = status.HTTP_500_INTERNAL_SERVER_ERROR
    /\ Cardinality({u \in users : u.username = sent.username}) = 1
    /\ \A i \in RegIds : registrations[i].pc = "idle"
    /\ Cardinality(users) = 1
    /\ Cardinality(userPreferences) = 1

\* C29: whenever a generation call succeeds its relevance score is at least
\* 0.5, so the gate "> 0.3" never rejects a successfully generated question:
\* an (item, role) pair is left without a question exactly when its call
\* failed or the item's title was missing or shorter than 10 characters.
C29_GateNeverRejectsSuccess ==
    unit.op = "generate_question_from_news" =>
        /\ unit.out.question_data # None => unit.out.relevance_score >= 5
        /\ unit.links = {} <=>
              \/ unit.reply = "error"
              \/ unit.news_item.title = Missing
              \/ unit.news_item.title.len < 10

\* C29 witness: a call for an unknown role and an item that is weeks old
\* succeeds with the lowest score there is, 0.5, and its question is kept
C29_LowestScoreKept ==
    /\ unit.op = "generate_question_from_news"
    /\ unit.position = "qa"
    /\ unit.news_item.published_at = 0 - 2000
    /\ unit.news_item.title = PlainTitle
    /\ unit.reply = OkReply
    /\ unit.out.relevance_score = 5
    /\ \E l \in unit.links : l.relevance_score = 5

\* C30: every Question row created by the ingestion job has a non-empty
\* content: a reply from which no question text can be parsed, such as an
\* empty reply, produces no Question / NewsBasedQuestion pair.
C30_QuestionsHaveContent ==
    /\ \A q \in questions : q.content # ""
    /\ \A r \in RunIds : \A q \in runs[r].pending.questions : q.content # ""

====
